---- MODULE Spec2Model ----
(***************************************************************************)
(* Model of backend/main.py of the GetIVA tracking system: the upload path *)
(* of create_application, update_application, create_task and update_task  *)
(* (Azure Blob Storage), with the connection each handler opens; the       *)
(* view_file and download_file resolvers; the Google Drive, Supabase and   *)
(* Cloudinary adapters; the listing of applications with its CSV fallback; *)
(* delete_application; create_user and write_users; create_lead and        *)
(* write_leads; the CSV migration of main.py and of test_migrate.py and    *)
(* POST /admin/migrate; and the sequential local-disk naming of the design *)
(* document (removed from main.py).                                        *)
(***************************************************************************)
EXTENDS Integers, Sequences, FiniteSets, TLC

\* ------------------------------------------------------------------ bounds

\* Rows the applications table may hold (the SERIAL id is capped by it).
MaxApps == 1
\* Last second of the wall clock (datetime.now() truncated to seconds).
MaxTime == 1
\* Concurrent ingests that fall back to the local disk.
MaxIngests == 2
\* Rows the tasks table may hold.
MaxTasks == 1
\* Stores through one adapter: concurrent upload_to_supabase calls, and files
\* the Drive account may hold.
MaxStores == 2
\* Rows of the applications table that get_applications pages through.
MaxRows == 3
\* Rows of the applications table that two users change and delete.
MaxOwned == 2
\* Concurrent create_lead calls.
MaxLeadCalls == 2

\* ------------------------------------------------------------------ strings

\* File names are sequences of characters, so that str.endswith and
\* str.lower are computed as Python computes them.
cv_pdf == <<"c", "v", ".", "p", "d", "f">>
cv_PDF == <<"c", "v", ".", "P", "D", "F">>
cv_docx == <<"c", "v", ".", "d", "o", "c", "x">>
cv_txt == <<"c", "v", ".", "t", "x", "t">>

Filenames == {cv_pdf, cv_PDF, cv_docx, cv_txt}

dot_pdf == <<".", "p", "d", "f">>
dot_doc == <<".", "d", "o", "c">>
dot_docx == <<".", "d", "o", "c", "x">>

\* The tuple passed to endswith at main.py:1113 and main.py:1318.
ALLOWED_SUFFIXES == {dot_pdf, dot_doc, dot_docx}

UpperToLower == ("P" :> "p") @@ ("D" :> "d") @@ ("F" :> "f") @@ ("O" :> "o")
                @@ ("C" :> "c") @@ ("X" :> "x") @@ ("V" :> "v") @@ ("T" :> "t")

\* str.lower()
lower(s) == [i \in 1..Len(s) |-> IF s[i] \in DOMAIN UpperToLower
                                    THEN UpperToLower[s[i]] ELSE s[i]]

\* str.endswith(suffix): case-sensitive comparison of the tail.
endswith(s, suffix) ==
    /\ Len(s) >= Len(suffix)
    /\ SubSeq(s, Len(s) - Len(suffix) + 1, Len(s)) = suffix

\* ------------------------------------------------------------------ data

None == "None"

Usernames == {"alice", "bob"}
Companies == {"acme", "globex"}
Contents == {"d1", "d2"}
\* status values a client may send to update_application
StatusInputs == {"Interview"}

status_lower(s) == IF s = "Interview" THEN "interview" ELSE s

NoFile == [filename |-> <<>>, content |-> None]
Files == [filename : Filenames, content : Contents]
\* The uploads the requests of Spec carry.
Uploads == [filename : {cv_pdf, cv_PDF, cv_txt}, content : {"d1"}]

\* The failover chain of the design document, in its priority order.
Priority == <<"ObjectDrive", "BlobBucket", "CDNMedia", "LocalDisk">>
AzureBlob == "AzureBlob"

\* Which chain backends would succeed if they were invoked: the first k fail
\* and the rest are healthy, for k = 0 (all healthy) and 3 (only the local
\* disk).
ChainSuffix(k) == {Priority[i] : i \in (k + 1)..Len(Priority)}
HealthySets == {ChainSuffix(0), ChainSuffix(3)}

\* The environment of one request: database reachable, Azure credentials
\* and reachability, whether the SQL write succeeds, health of the chain.
EnvOf(db, azure, write, healthy) ==
    [db |-> db, azure |-> azure, write |-> write, healthy |-> healthy]

Envs ==
    {EnvOf("down", "ok", "ok", ChainSuffix(3)), EnvOf("up", "ok", "fail", ChainSuffix(3)),
     EnvOf("up", "unconfigured", "ok", ChainSuffix(3))}
    \cup {EnvOf("up", a, "ok", h) : a \in {"fail", "ok"}, h \in HealthySets}

NoRef == [kind |-> None, blob |-> <<>>]

VARIABLES
    users,          \* users table: username -> password hash and role
    applications,   \* applications table: id -> row
    nextId,         \* next value of the SERIAL id
    blobs,          \* Azure container: blob name -> content
    now,            \* wall clock, in seconds
    resp,           \* the response of the last write request, with what it did
    rresp,          \* the response of the last view_file / download_file
    prevView,       \* the response of the view_file before the last one
    disk,           \* local uploads directory: slot n (file db<n>) -> its writer
    lpc,            \* local ingest -> where it is: idle, probed, done, failed
    lname,          \* local ingest -> the name it chose: slot and extension
    tasks,          \* tasks table: id -> row
    tnextId,        \* next value of the SERIAL id of tasks
    tblobs,         \* Azure container of task attachments: blob name -> content
    tresp,          \* the response of the last task request, with what it did
    dfiles,         \* Google Drive: file id -> name and whether anyone may read it
    bucket,         \* Supabase bucket: key -> content
    slog,           \* the upload_to_supabase calls whose upsert succeeded, in order
    spc,            \* upload_to_supabase call -> idle, uploaded, done, failed
    sjob,           \* upload_to_supabase call -> its arguments, calls and result
    aresp,          \* the result of the last upload_to_google_drive / _cloudinary
    csvfiles,       \* data directory: username -> rows of applications_<username>.csv
    lresp,          \* the result of the last get_applications / read_applications
    uresp,          \* the response of the last admin request on users
    leads,          \* leads table: id -> row
    recruiters,     \* recruiters table: id -> row
    datadir,        \* the CSV files of the data directory
    fk_username,    \* whether applications.username references users (ON DELETE CASCADE)
    mresp,          \* what the last migration run or /admin/migrate request did
    workers,        \* worker processes that serve requests on the one database
    cpc,            \* position of each create_lead call: "idle", "read", "done"
    clist,          \* the leads each create_lead call read, with its new lead
    cresp           \* the response of each create_lead call

writeVars == <<users, applications, nextId, blobs, now, resp>>
resolveVars == <<rresp, prevView>>
localVars == <<disk, lpc, lname>>
taskVars == <<tasks, tnextId, tblobs, tresp>>
adapterVars == <<dfiles, bucket, slog, spc, sjob, aresp>>
listVars == <<csvfiles, lresp>>
migrateVars == <<leads, recruiters, datadir, fk_username, mresp>>
leadVars == <<workers, cpc, clist, cresp>>
adminVars == <<uresp, migrateVars, leadVars>>
extVars == <<taskVars, adapterVars, listVars, adminVars>>
vars == <<writeVars, resolveVars, localVars, extVars>>

NoResp ==
    [op |-> "none", row_id |-> 0, username |-> None, conn |-> "none",
     status |-> 0, unhandled |-> FALSE, found |-> FALSE,
     filename |-> <<>>, env |-> EnvOf("up", "ok", "ok", {}),
     upload |-> "none", calls |-> <<>>, backend |-> None, ref |-> NoRef,
     detail |-> <<>>]

\* ------------------------------------------------------------------ upload

\* A variant of the check that lets every file name through.
valid_extension_any(filename) == TRUE

\* The check at main.py:1113 and main.py:1318:
\* file.filename.endswith(('.pdf', '.doc', '.docx')).
valid_extension(filename) == \E suffix \in ALLOWED_SUFFIXES : endswith(filename, suffix)

\* f"{username}/resumes/{timestamp_str}_{file.filename}"
blob_name_of(username, t, filename) == <<username, t, filename>>

\* container_client.upload_blob(name, data, overwrite=True)
upload_blob(store, name, content) ==
    [n \in DOMAIN store \cup {name} |-> IF n = name THEN content ELSE store[n]]

UploadResult(ok, kind, calls, store, name) ==
    [ok |-> ok, kind |-> kind, calls |-> calls, blobs |-> store, blob |-> name]

\* A variant of the upload block that falls back to local storage when the
\* Azure upload fails.
create_application_upload_fallback(username, file, env, t, store) ==
    LET name == blob_name_of(username, t, file.filename) IN
    IF env.azure = "ok"
    THEN UploadResult(TRUE, AzureBlob,
                      <<"azure.create_container", "azure.upload_blob">>,
                      upload_blob(store, name, file.content), name)
    ELSE IF "LocalDisk" \in env.healthy
    THEN UploadResult(TRUE, "LocalDisk", <<"local.write">>, store, <<"db1">>)
    ELSE UploadResult(FALSE, None, <<"local.write">>, store, <<>>)

\* The upload block of create_application (main.py:1143-1210): Azure Blob
\* Storage only; any failure ends the request, nothing else is tried.
create_application_upload(username, file, env, t, store) ==
    LET name == blob_name_of(username, t, file.filename) IN
    CASE env.azure = "unconfigured" ->
            UploadResult(FALSE, None, <<>>, store, <<>>)
      [] env.azure = "fail" ->
            UploadResult(FALSE, None,
                         <<"azure.create_container", "azure.upload_blob">>, store, <<>>)
      [] OTHER ->
            UploadResult(TRUE, AzureBlob,
                         <<"azure.create_container", "azure.upload_blob">>,
                         upload_blob(store, name, file.content), name)

\* A variant of the upload block of update_application that falls back to
\* local storage when Azure is unconfigured or fails.
update_application_upload_fallback(username, file, env, t, store) ==
    LET name == blob_name_of(username, t, file.filename) IN
    IF env.azure = "ok"
    THEN UploadResult(TRUE, AzureBlob, <<"azure.upload_blob">>,
                      upload_blob(store, name, file.content), name)
    ELSE IF "LocalDisk" \in env.healthy
    THEN UploadResult(TRUE, "LocalDisk", <<"local.write">>, store, <<"db1">>)
    ELSE UploadResult(FALSE, None, <<"local.write">>, store, <<>>)

\* The upload block of update_application (main.py:1324-1375): the same,
\* without the create_container call.
update_application_upload(username, file, env, t, store) ==
    LET name == blob_name_of(username, t, file.filename) IN
    CASE env.azure = "unconfigured" ->
            UploadResult(FALSE, None, <<>>, store, <<>>)
      [] env.azure = "fail" ->
            UploadResult(FALSE, None, <<"azure.upload_blob">>, store, <<>>)
      [] OTHER ->
            UploadResult(TRUE, AzureBlob, <<"azure.upload_blob">>,
                         upload_blob(store, name, file.content), name)

\* ------------------------------------------------------------------ handlers

\* What a handler leaves behind: the response and the tables after it.
\* found: the row lookup of the handler returned a row; upload: whether the
\* upload block ran and how it ended; backend: where the file was stored;
\* calls: the storage calls made, in order.
Outcome(status, found, up, ref, apps, id, store) ==
    [status |-> status, unhandled |-> FALSE, found |-> found, upload |-> up.upload,
     calls |-> up.calls, backend |-> up.backend, ref |-> ref,
     applications |-> apps, nextId |-> id, blobs |-> store]

NoUpload == [upload |-> "none", calls |-> <<>>, backend |-> None]
UploadOf(up) ==
    [upload |-> IF up.ok THEN "ok" ELSE "failed", calls |-> up.calls, backend |-> up.kind]

Rejected(status, found, apps, id, store) ==
    Outcome(status, found, NoUpload, NoRef, apps, id, store)

\* get_db_connection raises outside the handler's try block (main.py:126-150,
\* 1117, 1284): the framework answers 500.
Unhandled(apps, id, store) ==
    [Rejected(500, FALSE, apps, id, store) EXCEPT !.unhandled = TRUE]

AppRow(username, company, filename, ref, status) ==
    [username |-> username, company |-> company, filename |-> filename,
     resume_file_url |-> ref, azure_blob_path |-> ref.blob, status |-> status]

\* A variant of create_application that inserts the row, without a
\* Reference, when the upload failed.
create_application_outcome_keep(username, company, file, env, t, us, apps, id, store) ==
    IF ~valid_extension(file.filename)
    THEN Rejected(400, FALSE, apps, id, store)
    ELSE IF env.db = "down"
    THEN Unhandled(apps, id, store)
    ELSE IF username \notin us
    THEN Rejected(404, FALSE, apps, id, store)
    ELSE LET up == create_application_upload(username, file, env, t, store)
             ref == [kind |-> up.kind, blob |-> up.blob] IN
         IF env.write = "fail"
         THEN Outcome(500, TRUE, UploadOf(up), NoRef, apps, id, up.blobs)
         ELSE Outcome(IF up.ok THEN 200 ELSE 500, TRUE, UploadOf(up), ref,
                      [i \in DOMAIN apps \cup {id} |->
                          IF i = id
                          THEN AppRow(username, company, file.filename, ref, "applied")
                          ELSE apps[i]],
                      id + 1, up.blobs)

\* POST /applications (main.py:1104-1272).
create_application_outcome(username, company, file, env, t, us, apps, id, store) ==
    IF ~valid_extension(file.filename)
    THEN Rejected(400, FALSE, apps, id, store)
    ELSE IF env.db = "down"
    THEN Unhandled(apps, id, store)
    ELSE IF username \notin us
    THEN Rejected(404, FALSE, apps, id, store)
    ELSE LET up == create_application_upload(username, file, env, t, store)
             ref == [kind |-> up.kind, blob |-> up.blob] IN
         IF ~up.ok
         THEN Outcome(500, TRUE, UploadOf(up), NoRef, apps, id, store)
         ELSE IF env.write = "fail"
         THEN Outcome(500, TRUE, UploadOf(up), NoRef, apps, id, up.blobs)
         ELSE Outcome(200, TRUE, UploadOf(up), ref,
                      [i \in DOMAIN apps \cup {id} |->
                          IF i = id
                          THEN AppRow(username, company, file.filename, ref, "applied")
                          ELSE apps[i]],
                      id + 1, up.blobs)

\* The exception the Azure part of an upload block ends with: the block's own
\* "not configured" when the credentials are absent (main.py:1153-1154,
\* 1368-1369, 2040-2041, 2180-2181), the error of the SDK when upload_blob fails.
azure_error(op, env) ==
    CASE env.azure = "unconfigured" ->
            [class |-> IF op \in {"create_task", "update_task"}
                       THEN "HTTPException" ELSE "Exception",
             reason |-> CASE op \in {"create_task", "update_task"} ->
                                "Azure Blob Storage not configured"
                          [] op = "update_application" -> "Azure credentials not configured"
                          [] OTHER -> "Azure Storage credentials not configured"]
      [] env.azure = "fail" -> [class |-> "AzureError", reason |-> "upload_blob failed"]
      [] OTHER -> [class |-> None, reason |-> None]

\* detail=f"Failed to upload file to Azure Blob Storage: {str(e)}..."
\* (main.py:1210, 1375): the reasons the HTTPException of a failed upload
\* carries.
upload_detail(op, env, out) ==
    IF out.upload = "failed" THEN <<azure_error(op, env).reason>> ELSE <<>>

\* What the handler has done with the connection it opened when the request
\* ends: "none" when it opened none, "closed", or "open" when it returned
\* or raised without conn.close(). create_application (main.py:1116-1138,
\* 1205-1210, 1237, 1256-1272) checks the extension before it opens the
\* connection and closes it on every path but the failed upload;
\* update_application (main.py:1284-1300, 1319, 1375, 1421-1432) closes it
\* before the 404, on the normal return and after an unexpected exception,
\* and re-raises an HTTPException as it is; delete_application
\* (main.py:1437-1466) closes it after the commit.
application_connection(op, out) ==
    IF out.unhandled THEN "none"
    ELSE IF op = "create_application" /\ out.status = 400 THEN "none"
    ELSE IF op = "delete_application" THEN "closed"
    ELSE IF out.status = 404 THEN "closed"
    ELSE IF out.status = 400 THEN "open"
    ELSE IF out.status = 500 /\ out.upload = "failed" THEN "open"
    ELSE "closed"

Respond(op, row_id, username, file, env, out) ==
    [op |-> op, row_id |-> row_id, username |-> username,
     conn |-> application_connection(op, out), status |-> out.status,
     unhandled |-> out.unhandled,
     found |-> out.found, filename |-> file.filename, env |-> env,
     upload |-> out.upload, calls |-> out.calls, backend |-> out.backend,
     ref |-> out.ref, detail |-> upload_detail(op, env, out)]

create_application(username, company, file, env) ==
    /\ nextId <= MaxApps
    /\ LET out == create_application_outcome(username, company, file, env, now,
                                             DOMAIN users, applications, nextId, blobs) IN
        /\ applications' = out.applications
        /\ nextId' = out.nextId
        /\ blobs' = out.blobs
        /\ resp' = Respond("create_application", 0, username, file, env, out)
    /\ UNCHANGED <<users, now, resolveVars, localVars, extVars>>

\* The SET list update_application builds from its optional form fields
\* (main.py:1302-1314, 1377-1382), applied to the row.
updated_row(row, company, status, file, ref) ==
    LET r1 == IF company # None THEN [row EXCEPT !.company = company] ELSE row
        r2 == IF status # None THEN [r1 EXCEPT !.status = status_lower(status)] ELSE r1
    IN IF file # NoFile
       THEN [r2 EXCEPT !.resume_file_url = ref, !.azure_blob_path = ref.blob,
                       !.filename = file.filename]
       ELSE r2

\* A variant of update_application that looks the row up by its id alone.
update_application_outcome_by_id(row_id, username, company, status, file, env, t, apps, id, store) ==
    IF env.db = "down"
    THEN Unhandled(apps, id, store)
    ELSE IF row_id \notin DOMAIN apps
    THEN Rejected(404, FALSE, apps, id, store)
    ELSE IF env.write = "fail"
    THEN Rejected(500, TRUE, apps, id, store)
    ELSE Outcome(200, TRUE, NoUpload, apps[row_id].resume_file_url,
                 [apps EXCEPT ![row_id] = updated_row(@, company, status, NoFile, NoRef)],
                 id, store)

\* PUT /applications/{row_id} (main.py:1274-1432).
update_application_outcome(row_id, username, company, status, file, env, t, apps, id, store) ==
    IF env.db = "down"
    THEN Unhandled(apps, id, store)
    ELSE IF ~(row_id \in DOMAIN apps /\ apps[row_id].username = username)
    THEN Rejected(404, FALSE, apps, id, store)
    ELSE IF file # NoFile /\ ~valid_extension(file.filename)
    THEN Rejected(400, TRUE, apps, id, store)
    ELSE LET up == IF file # NoFile
                   THEN update_application_upload(username, file, env, t, store)
                   ELSE UploadResult(TRUE, None, <<>>, store, <<>>)
             ref == [kind |-> up.kind, blob |-> up.blob]
             did == IF file = NoFile THEN NoUpload ELSE UploadOf(up) IN
         IF ~up.ok
         THEN Outcome(500, TRUE, did, NoRef, apps, id, store)
         ELSE IF env.write = "fail"
         THEN Outcome(500, TRUE, did, NoRef, apps, id, up.blobs)
         ELSE Outcome(200, TRUE, did,
                      IF file # NoFile THEN ref ELSE apps[row_id].resume_file_url,
                      [apps EXCEPT ![row_id] = updated_row(@, company, status, file, ref)],
                      id, up.blobs)

update_application(row_id, username, company, status, file, env) ==
    /\ LET out == update_application_outcome(row_id, username, company, status, file, env,
                                             now, applications, nextId, blobs) IN
        /\ applications' = out.applications
        /\ nextId' = out.nextId
        /\ blobs' = out.blobs
        /\ resp' = Respond("update_application", row_id, username, file, env, out)
    /\ UNCHANGED <<users, now, resolveVars, localVars, extVars>>

\* The wall clock moves on between requests.
Tick ==
    /\ now < MaxTime
    /\ now' = now + 1
    /\ UNCHANGED <<users, applications, nextId, blobs, resp, resolveVars, localVars, extVars>>

\* ------------------------------------------------------------------ tasks

PRIORITIES == {"low", "medium", "high", "critical"}
STATUSES == {"todo", "in_progress", "review", "blocked", "done"}

\* due_date strings a client may send: none, one in the format %Y-%m-%d and
\* one that is not.
DueDates == {None, "2026-01-31", "31/01/2026"}

\* dt.strptime(due_date, '%Y-%m-%d') succeeds
valid_due_date(due_date) == due_date = "2026-01-31"

\* f"task_{timestamp}_{file.filename}"
task_blob_name_of(t, filename) == <<"task", t, filename>>

TaskRow(priority, status, due_date, ref, filename) ==
    [priority |-> priority, status |-> status, due_date |-> due_date,
     attachment_url |-> ref, attachment_name |-> filename]

\* What create_task leaves behind. raised: the class of the exception the
\* request ends with (None for a normal return); reasons: the failure
\* reasons its detail carries.
TaskOutcome(status, raised, reasons, upload, calls, ref, ts, id, store) ==
    [status |-> status, raised |-> raised, reasons |-> reasons, upload |-> upload,
     calls |-> calls, ref |-> ref, tasks |-> ts, tnextId |-> id, tblobs |-> store]

TaskRejected(status, ts, id, store) ==
    TaskOutcome(status, "HTTPException", <<>>, "none", <<>>, NoRef, ts, id, store)

\* A variant of create_task whose upload block lets the error of the storage
\* client through.
create_task_outcome_unwrapped(priority, status, due_date, file, env, t, ts, id, store) ==
    LET name == task_blob_name_of(t, file.filename)
        ref == IF file = NoFile THEN NoRef ELSE [kind |-> AzureBlob, blob |-> name]
        calls == IF file = NoFile \/ env.azure = "unconfigured"
                 THEN <<>> ELSE <<"azure.upload_blob">>
        stored == IF file = NoFile THEN store ELSE upload_blob(store, name, file.content)
        did == IF file = NoFile THEN "none" ELSE "ok"
    IN
    IF env.db = "down"
    THEN TaskOutcome(500, "Exception", <<>>, "none", <<>>, NoRef, ts, id, store)
    ELSE IF priority \notin PRIORITIES \/ status \notin STATUSES
    THEN TaskRejected(400, ts, id, store)
    ELSE IF file # NoFile /\ env.azure # "ok"
    THEN TaskOutcome(500, azure_error("create_task", env).class, <<>>, "failed", calls,
                     NoRef, ts, id, store)
    ELSE IF due_date # None /\ ~valid_due_date(due_date)
    THEN TaskOutcome(400, "HTTPException", <<>>, did, calls, NoRef, ts, id, stored)
    ELSE IF env.write = "fail"
    THEN TaskOutcome(500, "HTTPException", <<>>, did, calls, NoRef, ts, id, stored)
    ELSE TaskOutcome(200, None, <<>>, did, calls, ref,
                     [i \in DOMAIN ts \cup {id} |->
                         IF i = id
                         THEN TaskRow(priority, status, due_date, ref, file.filename)
                         ELSE ts[i]],
                     id + 1, stored)

\* POST /admin/tasks (main.py:1997-2127).
create_task_outcome(priority, status, due_date, file, env, t, ts, id, store) ==
    LET name == task_blob_name_of(t, file.filename)
        ref == IF file = NoFile THEN NoRef ELSE [kind |-> AzureBlob, blob |-> name]
        calls == IF file = NoFile \/ env.azure = "unconfigured"
                 THEN <<>> ELSE <<"azure.upload_blob">>
        stored == IF file = NoFile THEN store ELSE upload_blob(store, name, file.content)
        did == IF file = NoFile THEN "none" ELSE "ok"
    IN
    IF env.db = "down"
    THEN TaskOutcome(500, "Exception", <<>>, "none", <<>>, NoRef, ts, id, store)
    ELSE IF priority \notin PRIORITIES \/ status \notin STATUSES
    THEN TaskRejected(400, ts, id, store)
    ELSE IF file # NoFile /\ env.azure # "ok"
    THEN TaskOutcome(500, "HTTPException", <<azure_error("create_task", env).reason>>,
                     "failed", calls, NoRef, ts, id, store)
    ELSE IF due_date # None /\ ~valid_due_date(due_date)
    THEN TaskOutcome(400, "HTTPException", <<>>, did, calls, NoRef, ts, id, stored)
    ELSE IF env.write = "fail"
    THEN TaskOutcome(500, "HTTPException", <<>>, did, calls, NoRef, ts, id, stored)
    ELSE TaskOutcome(200, None, <<>>, did, calls, ref,
                     [i \in DOMAIN ts \cup {id} |->
                         IF i = id
                         THEN TaskRow(priority, status, due_date, ref, file.filename)
                         ELSE ts[i]],
                     id + 1, stored)

\* A variant of update_task without the checks of priority and status.
update_task_outcome_unchecked(task_id, priority, status, due_date, file, env, t, ts, id, store) ==
    IF env.db = "down"
    THEN TaskOutcome(500, "Exception", <<>>, "none", <<>>, NoRef, ts, id, store)
    ELSE IF task_id \notin DOMAIN ts
    THEN TaskRejected(404, ts, id, store)
    ELSE TaskOutcome(200, None, <<>>, "none", <<>>, ts[task_id].attachment_url,
                     [ts EXCEPT ![task_id] =
                         [@ EXCEPT !.priority = IF priority # None THEN priority ELSE @,
                                   !.status = IF status # None THEN status ELSE @]],
                     id, store)

\* The SET list update_task builds from its optional form fields
\* (main.py:2205-2246), applied to the row.
updated_task(row, priority, status, due_date, file, ref) ==
    LET r1 == IF priority # None THEN [row EXCEPT !.priority = priority] ELSE row
        r2 == IF status # None THEN [r1 EXCEPT !.status = status] ELSE r1
        r3 == IF due_date # None THEN [r2 EXCEPT !.due_date = due_date] ELSE r2
    IN IF file # NoFile
       THEN [r3 EXCEPT !.attachment_url = ref, !.attachment_name = file.filename]
       ELSE r3

\* PUT /admin/tasks/{task_id} (main.py:2129-2294): the lookup of the task,
\* the checks of priority and status when they are given, the upload, the
\* check of due_date, the UPDATE.
update_task_outcome(task_id, priority, status, due_date, file, env, t, ts, id, store) ==
    LET name == task_blob_name_of(t, file.filename)
        ref == IF file = NoFile THEN NoRef ELSE [kind |-> AzureBlob, blob |-> name]
        calls == IF file = NoFile \/ env.azure = "unconfigured"
                 THEN <<>> ELSE <<"azure.upload_blob">>
        stored == IF file = NoFile THEN store ELSE upload_blob(store, name, file.content)
        did == IF file = NoFile THEN "none" ELSE "ok"
        changes == priority # None \/ status # None \/ due_date # None \/ file # NoFile
    IN
    IF env.db = "down"
    THEN TaskOutcome(500, "Exception", <<>>, "none", <<>>, NoRef, ts, id, store)
    ELSE IF task_id \notin DOMAIN ts
    THEN TaskRejected(404, ts, id, store)
    ELSE IF (priority # None /\ priority \notin PRIORITIES)
            \/ (status # None /\ status \notin STATUSES)
    THEN TaskRejected(400, ts, id, store)
    ELSE IF file # NoFile /\ env.azure # "ok"
    THEN TaskOutcome(500, "HTTPException", <<azure_error("update_task", env).reason>>,
                     "failed", calls, NoRef, ts, id, store)
    ELSE IF due_date # None /\ ~valid_due_date(due_date)
    THEN TaskOutcome(400, "HTTPException", <<>>, did, calls, NoRef, ts, id, stored)
    ELSE IF changes /\ env.write = "fail"
    THEN TaskOutcome(500, "HTTPException", <<>>, did, calls, NoRef, ts, id, stored)
    ELSE TaskOutcome(200, None, <<>>, did, calls,
                     IF file # NoFile THEN ref ELSE ts[task_id].attachment_url,
                     [ts EXCEPT ![task_id] =
                         updated_task(@, priority, status, due_date, file, ref)],
                     id, stored)

\* What the handler has done with the connection it opened when the request
\* ends. create_task (main.py:2012-2127) and update_task (main.py:2145-2294)
\* open it first; they close it before the 404, on the normal return and in
\* the handler of an unexpected exception, and re-raise an HTTPException as
\* it is.
task_connection(op, out) ==
    IF out.raised = "Exception" THEN "none"
    ELSE IF out.status = 404 THEN "closed"
    ELSE IF out.status = 400 THEN "open"
    ELSE IF out.status = 500 /\ out.upload = "failed" THEN "open"
    ELSE "closed"

TaskRespond(op, task_id, priority, status0, file, env, out) ==
    [op |-> op, task_id |-> task_id, priority |-> priority,
     task_status |-> status0, conn |-> task_connection(op, out),
     status |-> out.status, raised |-> out.raised, reasons |-> out.reasons,
     filename |-> file.filename, env |-> env, upload |-> out.upload,
     calls |-> out.calls, ref |-> out.ref]

NoTaskResp ==
    [op |-> "none", task_id |-> 0, priority |-> None, task_status |-> None, conn |-> "none",
     status |-> 0, raised |-> None, reasons |-> <<>>,
     filename |-> <<>>, env |-> EnvOf("up", "ok", "ok", {}), upload |-> "none",
     calls |-> <<>>, ref |-> NoRef]

create_task(priority, status, due_date, file, env) ==
    /\ tnextId <= MaxTasks
    /\ LET out == create_task_outcome(priority, status, due_date, file, env, now,
                                      tasks, tnextId, tblobs) IN
        /\ tasks' = out.tasks
        /\ tnextId' = out.tnextId
        /\ tblobs' = out.tblobs
        /\ tresp' = TaskRespond("create_task", 0, priority, status, file, env, out)
    /\ UNCHANGED <<writeVars, resolveVars, localVars, adapterVars, listVars, adminVars>>

update_task(task_id, priority, status, due_date, file, env) ==
    /\ LET out == update_task_outcome(task_id, priority, status, due_date, file, env, now,
                                      tasks, tnextId, tblobs) IN
        /\ tasks' = out.tasks
        /\ tnextId' = out.tnextId
        /\ tblobs' = out.tblobs
        /\ tresp' = TaskRespond("update_task", task_id, priority, status, file, env, out)
    /\ UNCHANGED <<writeVars, resolveVars, localVars, adapterVars, listVars, adminVars>>

\* ------------------------------------------------------------------ resolver

\* A reference string, by the parts the resolvers look at: the scheme prefix,
\* the host, the directories of the path, the stem and the extension of the
\* last path segment, and the query parameters.
Url(scheme, host, dir, stem, ext, query) ==
    [scheme |-> scheme, host |-> host, dir |-> dir, stem |-> stem, ext |-> ext,
     query |-> query]

AzureHost == "acct.blob.core.windows.net"
DriveHost == "drive.google.com"
SupabaseHost == "proj.supabase.co"
InlineParam == "response-content-disposition=inline"

Urls ==
    {Url("https://", AzureHost, <<"files", "alice", "resumes">>, "cv", ".pdf", <<"sig=s">>),
     Url("https://", AzureHost, <<"files", "alice", "resumes">>, "cv", ".docx", <<"sig=s">>),
     Url("https://", AzureHost, <<"files", "alice", "resumes">>, "cv", ".DOC", <<>>),
     Url("https://", DriveHost, <<"file", "d", "id1">>, "view", "", <<>>),
     Url("https://", DriveHost, <<"file", "d", "id1">>, "view", ".docx", <<>>),
     Url("https://", DriveHost, <<>>, "uc", "", <<"export=download", "id=id1">>),
     Url("https://", SupabaseHost, <<"pdfs">>, "cv", ".pdf", <<>>),
     Url("https://", SupabaseHost, <<"pdfs">>, "cv", ".pdf", <<"t=1">>),
     Url("https://", SupabaseHost, <<"pdfs">>, "cv", ".pdf", <<InlineParam>>),
     Url("http://", "example.com", <<>>, "cv", ".PDF", <<>>),
     Url("ftp://", "example.com", <<>>, "cv", ".pdf", <<>>),
     Url("", "", <<"uploads">>, "db1", ".pdf", <<>>)}

\* What the outbound fetch finds: whether it succeeds and the Content-Type
\* the remote end reports.
Fetches == [ok : BOOLEAN, ctype : {"application/pdf", "application/octet-stream"}]

\* A variant of the scheme test that lets any scheme through.
is_http_any_scheme(url) == url.scheme # ""

\* url.startswith("http://") or url.startswith("https://")
is_http(url) == url.scheme \in {"http://", "https://"}

ExtLower == (".pdf" :> ".pdf") @@ (".PDF" :> ".pdf") @@ (".docx" :> ".docx")
            @@ (".DOC" :> ".doc") @@ ("" :> "")

\* os.path.splitext(filename)[1].lower() (main.py:2498)
file_ext(url) == ExtLower[url.ext]

\* os.path.basename(parsed_url.path) or "file"
basename(url) == IF url.stem = "" /\ url.ext = "" THEN <<"file", "">> ELSE <<url.stem, url.ext>>

\* "drive.google.com/file/d/" in url and "/view" in url (main.py:2571)
is_drive_view(url) ==
    /\ url.host = DriveHost
    /\ Len(url.dir) >= 2 /\ url.dir[1] = "file" /\ url.dir[2] = "d"
    /\ url.stem = "view"

\* The rewriting at main.py:2595-2597: append the inline-disposition
\* parameter to a Supabase URL that has none.
with_inline_param(url) ==
    IF url.host = SupabaseHost /\ InlineParam \notin {url.query[i] : i \in 1..Len(url.query)}
    THEN [url EXCEPT !.query = Append(@, InlineParam)]
    ELSE url

NoUrl == Url(None, None, <<>>, None, None, <<>>)

Plan(status, kind, disposition, media, target, name) ==
    [status |-> status, kind |-> kind, disposition |-> disposition, media |-> media,
     target |-> target, name |-> name]

\* A variant of download_file that reports a failed fetch as an error.
download_file_outcome_strict(url, fetch) ==
    IF ~is_http(url)
    THEN Plan(400, "error", None, None, NoUrl, None)
    ELSE IF fetch.ok
    THEN Plan(200, "bytes", "attachment", fetch.ctype, NoUrl, basename(url))
    ELSE Plan(500, "error", None, None, NoUrl, None)

\* GET /download-file (main.py:2418-2475).
download_file_outcome(url, fetch) ==
    IF ~is_http(url)
    THEN Plan(400, "error", None, None, NoUrl, None)
    ELSE IF fetch.ok
    THEN Plan(200, "bytes", "attachment", fetch.ctype, NoUrl, basename(url))
    ELSE Plan(307, "redirect", None, None, url, None)

\* A variant of view_file that remembers the reference it served last and
\* answers a repeated request for it with a redirect instead of fetching again.
view_file_outcome_remembering(url, fetch) ==
    IF ~is_http(url)
    THEN Plan(400, "error", None, None, NoUrl, None)
    ELSE IF file_ext(url) \in {".docx", ".doc"}
    THEN Plan(200, "viewer", None, "text/html", url, "docs.google.com/viewer")
    ELSE IF is_drive_view(url)
    THEN Plan(200, "viewer", None, "text/html", url, "iframe")
    ELSE IF fetch.ok /\ ~(rresp.op = "view_file" /\ rresp.url = url /\ rresp.kind = "bytes")
    THEN Plan(200, "bytes", "inline",
              IF file_ext(url) = ".pdf" THEN "application/pdf" ELSE fetch.ctype,
              NoUrl, basename(url))
    ELSE Plan(307, "redirect", None, None, with_inline_param(url), None)

\* A variant of view_file that serves the fetched bytes with the disposition
\* of download_file.
view_file_outcome_attachment(url, fetch) ==
    IF ~is_http(url)
    THEN Plan(400, "error", None, None, NoUrl, None)
    ELSE IF file_ext(url) \in {".docx", ".doc"}
    THEN Plan(200, "viewer", None, "text/html", url, "docs.google.com/viewer")
    ELSE IF is_drive_view(url)
    THEN Plan(200, "viewer", None, "text/html", url, "iframe")
    ELSE IF fetch.ok
    THEN Plan(200, "bytes", "attachment",
              IF file_ext(url) = ".pdf" THEN "application/pdf" ELSE fetch.ctype,
              NoUrl, basename(url))
    ELSE Plan(307, "redirect", None, None, with_inline_param(url), None)

\* A variant of view_file that tests for a Google Drive view link before it
\* tests for an office document.
view_file_outcome_drive_first(url, fetch) ==
    IF ~is_http(url)
    THEN Plan(400, "error", None, None, NoUrl, None)
    ELSE IF is_drive_view(url)
    THEN Plan(200, "viewer", None, "text/html", url, "iframe")
    ELSE IF file_ext(url) \in {".docx", ".doc"}
    THEN Plan(200, "viewer", None, "text/html", url, "docs.google.com/viewer")
    ELSE IF fetch.ok
    THEN Plan(200, "bytes", "inline",
              IF file_ext(url) = ".pdf" THEN "application/pdf" ELSE fetch.ctype,
              NoUrl, basename(url))
    ELSE Plan(307, "redirect", None, None, with_inline_param(url), None)

\* GET /view-file (main.py:2477-2633).
view_file_outcome(url, fetch) ==
    IF ~is_http(url)
    THEN Plan(400, "error", None, None, NoUrl, None)
    ELSE IF file_ext(url) \in {".docx", ".doc"}
    THEN Plan(200, "viewer", None, "text/html", url, "docs.google.com/viewer")
    ELSE IF is_drive_view(url)
    THEN Plan(200, "viewer", None, "text/html", url, "iframe")
    ELSE LET fetched == with_inline_param(url) IN
         IF fetch.ok
         THEN Plan(200, "bytes", "inline",
                   IF file_ext(url) = ".pdf" THEN "application/pdf" ELSE fetch.ctype,
                   NoUrl, basename(url))
         ELSE Plan(307, "redirect", None, None, fetched, None)

Resolved(op, url, fetch, plan) ==
    [op |-> op, url |-> url, fetch |-> fetch, status |-> plan.status,
     kind |-> plan.kind, disposition |-> plan.disposition, media |-> plan.media,
     target |-> plan.target, name |-> plan.name]

NoResolved ==
    Resolved("none", NoUrl, [ok |-> FALSE, ctype |-> None],
             Plan(0, None, None, None, NoUrl, None))

download_file(url, fetch) ==
    /\ rresp' = Resolved("download_file", url, fetch, download_file_outcome(url, fetch))
    /\ UNCHANGED <<prevView, writeVars, localVars, extVars>>

view_file(url, fetch) ==
    /\ rresp' = Resolved("view_file", url, fetch, view_file_outcome(url, fetch))
    /\ prevView' = IF rresp.op = "view_file" THEN rresp ELSE prevView
    /\ UNCHANGED <<writeVars, localVars, extVars>>

\* ------------------------------------------------------------------ adapters

\* The surroundings of one adapter call: whether the backend's credentials are
\* configured, and whether its first and its second remote call succeed.
AdapterEnvs == [configured : BOOLEAN, first : BOOLEAN, second : BOOLEAN]

\* SUPABASE_BUCKET = os.getenv("SUPABASE_BUCKET", "pdfs")
SUPABASE_BUCKET == "pdfs"

\* The dict an adapter returns.
Links(view_link, download_link, file_id) ==
    [view_link |-> view_link, download_link |-> download_link, file_id |-> file_id]

NoLinks == Links(NoUrl, NoUrl, None)

\* How an adapter call ended: the dict it returned, or the exception it
\* raised, with the remote calls it made and the store after it.
AdapterResult(ok, reason, calls, links, store) ==
    [ok |-> ok, reason |-> reason, calls |-> calls, links |-> links, store |-> store]

\* A variant that hands out a client without looking at the credentials.
get_service_unchecked(env) == "service"

\* get_drive_service() (main.py:92-108) and get_supabase_client()
\* (main.py:111-120): None without the credentials.
get_service(env) == IF env.configured THEN "service" ELSE None

\* A variant of upload_to_google_drive that returns the links although the
\* permission call failed.
upload_to_google_drive_lenient(env, filename, files) ==
    LET id == Len(files) + 1
        links == Links(Url("https://", DriveHost, <<"file", "d", id>>, "view", "", <<>>),
                       Url("https://", DriveHost, <<>>, "uc", "", <<"export=download", id>>),
                       id)
    IN
    IF get_service(env) = None
    THEN AdapterResult(FALSE, "Google Drive service not available", <<>>, NoLinks, files)
    ELSE IF ~env.first
    THEN AdapterResult(FALSE, "HttpError", <<"drive.files.create">>, NoLinks, files)
    ELSE AdapterResult(TRUE, None, <<"drive.files.create", "drive.permissions.create">>,
                       links, Append(files, [name |-> filename, public |-> env.second]))

\* upload_to_google_drive (main.py:828-863): files().create, then
\* permissions().create for anyone/reader, then the links.
upload_to_google_drive_outcome(env, filename, files) ==
    LET id == Len(files) + 1
        links == Links(Url("https://", DriveHost, <<"file", "d", id>>, "view", "", <<>>),
                       Url("https://", DriveHost, <<>>, "uc", "", <<"export=download", id>>),
                       id)
    IN
    IF get_service(env) = None
    THEN AdapterResult(FALSE, "Google Drive service not available", <<>>, NoLinks, files)
    ELSE IF ~env.first
    THEN AdapterResult(FALSE, "HttpError", <<"drive.files.create">>, NoLinks, files)
    ELSE IF ~env.second
    THEN AdapterResult(FALSE, "HttpError",
                       <<"drive.files.create", "drive.permissions.create">>, NoLinks,
                       Append(files, [name |-> filename, public |-> FALSE]))
    ELSE AdapterResult(TRUE, None, <<"drive.files.create", "drive.permissions.create">>,
                       links, Append(files, [name |-> filename, public |-> TRUE]))

\* upload_to_cloudinary (main.py:894-931): one upload call.
upload_to_cloudinary_outcome(env, filename) ==
    IF ~env.configured
    THEN AdapterResult(FALSE, "Cloudinary service not available", <<>>, NoLinks, None)
    ELSE IF ~env.first
    THEN AdapterResult(FALSE, "Error", <<"cloudinary.uploader.upload">>, NoLinks, None)
    ELSE LET secure_url == Url("https://", "res.cloudinary.com", <<"getiva-uploads">>,
                               filename, "", <<>>) IN
         AdapterResult(TRUE, None, <<"cloudinary.uploader.upload">>,
                       Links(secure_url, secure_url, filename), None)

AdapterResponse(op, env, filename, out) ==
    [op |-> op, env |-> env, filename |-> filename, ok |-> out.ok, reason |-> out.reason,
     calls |-> out.calls, links |-> out.links]

NoAdapterResponse ==
    [op |-> "none", env |-> [configured |-> FALSE, first |-> FALSE, second |-> FALSE],
     filename |-> <<>>, ok |-> FALSE, reason |-> None, calls |-> <<>>, links |-> NoLinks]

upload_to_google_drive(env, filename) ==
    /\ Len(dfiles) < MaxStores
    /\ LET out == upload_to_google_drive_outcome(env, filename, dfiles) IN
        /\ dfiles' = out.store
        /\ aresp' = AdapterResponse("upload_to_google_drive", env, filename, out)
    /\ UNCHANGED <<bucket, slog, spc, sjob, writeVars, resolveVars, localVars, taskVars,
                   listVars, adminVars>>

upload_to_cloudinary(env, filename) ==
    /\ aresp' = AdapterResponse("upload_to_cloudinary", env, filename,
                                upload_to_cloudinary_outcome(env, filename))
    /\ UNCHANGED <<dfiles, bucket, slog, spc, sjob, writeVars, resolveVars, localVars,
                   taskVars, listVars, adminVars>>

Stores == 1..MaxStores

\* A variant of the bucket's upload that keeps the object a key already has.
storage_upload_keep_first(objects, key, content) ==
    IF key \in DOMAIN objects THEN objects
    ELSE [k \in DOMAIN objects \cup {key} |-> IF k = key THEN content ELSE objects[k]]

\* storage.from_(SUPABASE_BUCKET).upload(filename, file_content,
\* {"upsert": "true"}): replace if exists (main.py:874-878).
storage_upload(objects, key, content) ==
    [k \in DOMAIN objects \cup {key} |-> IF k = key THEN content ELSE objects[k]]

\* storage.from_(SUPABASE_BUCKET).get_public_url(filename)
get_public_url(filename) ==
    Url("https://", SupabaseHost, <<"storage", "v1", "object", "public", SUPABASE_BUCKET>>,
        filename, "", <<>>)

SupabaseJob(filename, content, env, calls, reason, links) ==
    [filename |-> filename, content |-> content, env |-> env, calls |-> calls,
     reason |-> reason, links |-> links]

NoJob ==
    SupabaseJob(<<>>, None, [configured |-> FALSE, first |-> FALSE, second |-> FALSE],
                <<>>, None, NoLinks)

\* upload_to_supabase up to and including its upload call (main.py:865-878).
\* Call p carries the content p.
upload_to_supabase_upload(p, env, filename) ==
    /\ spc[p] = "idle"
    /\ IF get_service(env) = None
       THEN /\ spc' = [spc EXCEPT ![p] = "failed"]
            /\ sjob' = [sjob EXCEPT ![p] = SupabaseJob(filename, p, env, <<>>,
                                              "Supabase service not available", NoLinks)]
            /\ UNCHANGED <<bucket, slog>>
       ELSE IF ~env.first
       THEN /\ spc' = [spc EXCEPT ![p] = "failed"]
            /\ sjob' = [sjob EXCEPT ![p] = SupabaseJob(filename, p, env,
                                              <<"storage.upload">>, "StorageException",
                                              NoLinks)]
            /\ UNCHANGED <<bucket, slog>>
       ELSE /\ spc' = [spc EXCEPT ![p] = "uploaded"]
            /\ sjob' = [sjob EXCEPT ![p] = SupabaseJob(filename, p, env,
                                              <<"storage.upload">>, None, NoLinks)]
            /\ bucket' = storage_upload(bucket, filename, p)
            /\ slog' = Append(slog, p)
    /\ UNCHANGED <<dfiles, aresp, writeVars, resolveVars, localVars, taskVars, listVars,
                   adminVars>>

\* The rest of upload_to_supabase (main.py:880-889): the public URL is
\* built from the file name and returned as both links.
upload_to_supabase_return(p) ==
    /\ spc[p] = "uploaded"
    /\ spc' = [spc EXCEPT ![p] = "done"]
    /\ sjob' = [sjob EXCEPT ![p].links =
                    Links(get_public_url(sjob[p].filename), get_public_url(sjob[p].filename),
                          sjob[p].filename)]
    /\ UNCHANGED <<bucket, slog, dfiles, aresp, writeVars, resolveVars, localVars, taskVars,
                   listVars, adminVars>>

\* ------------------------------------------------------------------ listing

max(a, b) == IF a >= b THEN a ELSE b
min(a, b) == IF a <= b THEN a ELSE b

\* A variant of the limit clamp without the upper end.
clamp_limit_uncapped(limit) == max(1, limit)

\* page = max(1, page)
clamp_page(page) == max(1, page)
\* limit = max(1, min(100, limit))
clamp_limit(limit) == max(1, min(100, limit))

\* mylist[offset:offset + limit]
slice(rows, offset, limit) == SubSeq(rows, offset + 1, min(Len(rows), offset + limit))

\* SELECT ... FROM applications WHERE username = %s ORDER BY timestamp DESC:
\* the ids of the user's rows, latest first (timestamp is CURRENT_TIMESTAMP
\* of the insert, so a later row has the larger id).
select_by_username(apps, username) ==
    LET ids == {i \in DOMAIN apps : apps[i].username = username} IN
    [k \in 1..Cardinality(ids) |->
        CHOOSE i \in ids : Cardinality({j \in ids : j > i}) = k - 1]

DbItem(id) == [source |-> "db", id |-> id]
CsvItem(id) == [source |-> "csv", id |-> id]

\* init_user_csv (main.py:455-462): create the user's CSV file, with the
\* header only, when it does not exist.
init_user_csv(files, username) ==
    IF username \in DOMAIN files THEN files
    ELSE [u \in DOMAIN files \cup {username} |-> IF u = username THEN <<>> ELSE files[u]]

\* What a read leaves behind: whether it raised, the rows it returned, and
\* the data directory after it.
Read(raised, source, rows, files) ==
    [raised |-> raised, source |-> source, rows |-> rows, csvfiles |-> files]

\* read_applications (main.py:711-765). get_db_connection raises when no
\* connection can be had (main.py:126-150), outside the try block; only a
\* failing query reaches the CSV part.
read_applications_outcome(username, env, apps, files) ==
    IF env.db = "down"
    THEN Read(TRUE, None, <<>>, files)
    ELSE IF env.query = "ok"
    THEN Read(FALSE, "db", [k \in DOMAIN select_by_username(apps, username) |->
                               DbItem(select_by_username(apps, username)[k])], files)
    ELSE LET created == init_user_csv(files, username) IN
         Read(FALSE, "csv",
              [k \in DOMAIN created[username] |-> CsvItem(created[username][k])], created)

Pagination(page, limit, total) ==
    [page |-> page, limit |-> limit, total |-> total,
     total_pages |-> IF total > 0 THEN (total + limit - 1) \div limit ELSE 0]

NoPagination == [page |-> 0, limit |-> 0, total |-> 0, total_pages |-> 0]

Listing(raised, source, items, pagination, files) ==
    [raised |-> raised, source |-> source, items |-> items, pagination |-> pagination,
     csvfiles |-> files]

\* GET /applications (main.py:999-1102). env.retry is what the connection
\* and the query of the read_applications call of the fallback find.
get_applications_outcome(username, page0, limit0, env, apps, files) ==
    LET page == clamp_page(page0)
        limit == clamp_limit(limit0)
        offset == (page - 1) * limit
    IN
    IF env.db = "down"
    THEN Listing(TRUE, None, <<>>, NoPagination, files)
    ELSE IF env.query = "ok"
    THEN LET ids == select_by_username(apps, username)
             rows == slice(ids, offset, limit) IN
         Listing(FALSE, "db", [k \in DOMAIN rows |-> DbItem(rows[k])],
                 Pagination(page, limit, Len(ids)), files)
    ELSE LET all_apps == read_applications_outcome(username, env.retry, apps,
                                                   init_user_csv(files, username)) IN
         IF all_apps.raised
         THEN Listing(TRUE, None, <<>>, NoPagination, all_apps.csvfiles)
         ELSE Listing(FALSE, all_apps.source, slice(all_apps.rows, offset, limit),
                      Pagination(page, limit, Len(all_apps.rows)), all_apps.csvfiles)

ListResponse(op, username, page, limit, env, out) ==
    [op |-> op, username |-> username, page |-> page, limit |-> limit, env |-> env,
     raised |-> out.raised, source |-> out.source, items |-> out.items,
     pagination |-> out.pagination]

ReadEnv(db, query) == [db |-> db, query |-> query]
ListEnv(db, query, retry) == [db |-> db, query |-> query, retry |-> retry]

NoListing ==
    ListResponse("none", None, 0, 0, ReadEnv("up", "ok"),
                 Listing(FALSE, None, <<>>, NoPagination, << >>))

get_applications(username, page, limit, env) ==
    /\ LET out == get_applications_outcome(username, page, limit, env, applications,
                                           csvfiles) IN
        /\ csvfiles' = out.csvfiles
        /\ lresp' = ListResponse("get_applications", username, page, limit, env, out)
    /\ UNCHANGED <<writeVars, resolveVars, localVars, taskVars, adapterVars, adminVars>>

read_applications(username, env) ==
    /\ LET out == read_applications_outcome(username, env, applications, csvfiles) IN
        /\ csvfiles' = out.csvfiles
        /\ lresp' = ListResponse("read_applications", username, 0, 0, env,
                                 Listing(out.raised, out.source, out.rows, NoPagination,
                                         out.csvfiles))
    /\ UNCHANGED <<writeVars, resolveVars, localVars, taskVars, adapterVars, adminVars>>

\* The tables the listing starts from: n rows, all of alice or owned in
\* turn by bob and alice.
ListTable(n, mixed) ==
    [i \in 1..n |->
        LET u == IF mixed /\ i % 2 = 1 THEN "bob" ELSE "alice" IN
        AppRow(u, "acme", cv_pdf, [kind |-> AzureBlob, blob |-> blob_name_of(u, i, cv_pdf)],
               "applied")]

ListTables == {ListTable(n, mixed) : n \in 0..MaxRows, mixed \in BOOLEAN}

\* The data directory the listing starts from: no CSV file, or a file of
\* alice with three rows.
StartCsvFiles == {<< >>, [u \in {"alice"} |-> <<"c1", "c2", "c3">>]}

ReadEnvs == {ReadEnv("down", "ok"), ReadEnv("up", "ok"), ReadEnv("up", "fail")}
ListEnvs ==
    {ListEnv("down", "ok", ReadEnv("up", "ok")), ListEnv("up", "ok", ReadEnv("up", "ok"))}
    \cup {ListEnv("up", "fail", r) : r \in ReadEnvs}

Pages == {0, 1, 2, 3}
Limits == {0, 1, 2, 100, 150}

\* ------------------------------------------------------------------ delete

\* write_applications_csv (main.py:803-816): the user's file, created when
\* missing, rewritten with the given rows.
write_applications_csv(files, username, rows) ==
    [init_user_csv(files, username) EXCEPT ![username] = [k \in DOMAIN rows |-> rows[k].id]]

DeleteEnv(db, write, read) == [db |-> db, write |-> write, read |-> read]

DeleteOutcome(status, unhandled, apps, files) ==
    [status |-> status, unhandled |-> unhandled, found |-> status \notin {404}, upload |-> "none",
     calls |-> << >>, backend |-> None, ref |-> NoRef, applications |-> apps, csvfiles |-> files]

\* DELETE /applications/{row_id} (main.py:1434-1466): DELETE ... WHERE id
\* AND username, 404 when no row was deleted, then the CSV copy of the user
\* is rewritten from read_applications.
delete_application_outcome(row_id, username, env, apps, files) ==
    IF env.db = "down"
    THEN DeleteOutcome(500, TRUE, apps, files)
    ELSE IF env.write = "fail"
    THEN DeleteOutcome(500, FALSE, apps, files)
    ELSE IF ~(row_id \in DOMAIN apps /\ apps[row_id].username = username)
    THEN DeleteOutcome(404, FALSE, apps, files)
    ELSE LET left == [i \in DOMAIN apps \ {row_id} |-> apps[i]]
             read == read_applications_outcome(username, env.read, left, files) IN
         IF read.raised
         THEN DeleteOutcome(500, FALSE, left, read.csvfiles)
         ELSE DeleteOutcome(200, FALSE, left,
                            write_applications_csv(read.csvfiles, username, read.rows))

delete_application(row_id, username, env) ==
    /\ LET out == delete_application_outcome(row_id, username, env, applications, csvfiles) IN
        /\ applications' = out.applications
        /\ csvfiles' = out.csvfiles
        /\ resp' = Respond("delete_application", row_id, username, NoFile,
                           EnvOf(env.db, "ok", env.write, {}), out)
    /\ UNCHANGED <<users, nextId, blobs, now, lresp, resolveVars, localVars, taskVars,
                   adapterVars, adminVars>>

\* ------------------------------------------------------------------ users

\* hashlib.sha256(password.encode()).hexdigest()
hash_password(password) ==
    CASE password = "pw0" -> "sha256(pw0)"
      [] password = "pw1" -> "sha256(pw1)"
      [] OTHER -> "sha256(..)"

UserRow(password, role) == [password |-> password, role |-> role]

\* The users table holding the given usernames, as ordinary users.
UsersOf(names) == [u \in names |-> UserRow(hash_password("pw0"), "user")]

\* The surroundings of one admin request: database reachable, and whether the
\* SELECT and the writing transaction succeed.
AdminEnv(db, read, write) == [db |-> db, read |-> read, write |-> write]
AdminEnvs ==
    {AdminEnv("down", "ok", "ok"), AdminEnv("up", "fail", "ok"), AdminEnv("up", "ok", "fail"),
     AdminEnv("up", "ok", "ok")}

\* What DELETE FROM users leaves of the applications table: the foreign key
\* fk_username is ON DELETE CASCADE (main.py:199-213, 222-237), so the rows
\* of every deleted user go with it.
on_delete_cascade(apps, deleted) ==
    [i \in {j \in DOMAIN apps : apps[j].username \notin deleted} |-> apps[i]]

\* write_users (main.py:494-520) in one transaction: DELETE FROM users, then
\* one INSERT ... ON CONFLICT DO UPDATE per user of the list.
write_users(list, us, apps, fk) ==
    [users |-> [u \in DOMAIN list |-> list[u]],
     applications |-> IF fk THEN on_delete_cascade(apps, DOMAIN us) ELSE apps]

AdminOutcome(status, unhandled, us, apps, files) ==
    [status |-> status, unhandled |-> unhandled, users |-> us, applications |-> apps,
     csvfiles |-> files]

\* POST /admin/users (main.py:1488-1520): read_users, the duplicate check,
\* write_users with the new user appended, init_user_csv.
create_user_outcome(username, password, role, env, us, apps, files, fk) ==
    IF env.db = "down"
    THEN AdminOutcome(500, TRUE, us, apps, files)
    ELSE IF env.read = "fail"
    THEN AdminOutcome(500, FALSE, us, apps, files)
    ELSE IF username \in DOMAIN us
    THEN AdminOutcome(400, FALSE, us, apps, files)
    ELSE IF env.write = "fail"
    THEN AdminOutcome(500, FALSE, us, apps, files)
    ELSE LET list == [u \in DOMAIN us \cup {username} |->
                        IF u = username THEN UserRow(hash_password(password), role)
                        ELSE us[u]]
             written == write_users(list, us, apps, fk) IN
         AdminOutcome(200, FALSE, written.users, written.applications,
                      init_user_csv(files, username))

AdminResponse(op, username, env, out) ==
    [op |-> op, username |-> username, env |-> env, status |-> out.status,
     unhandled |-> out.unhandled]

NoAdminResponse ==
    AdminResponse("none", None, AdminEnv("up", "ok", "ok"),
                  AdminOutcome(0, FALSE, << >>, << >>, << >>))

create_user(username, password, role, env) ==
    /\ LET out == create_user_outcome(username, password, role, env, users, applications,
                                      csvfiles, fk_username) IN
        /\ users' = out.users
        /\ applications' = out.applications
        /\ csvfiles' = out.csvfiles
        /\ uresp' = AdminResponse("create_user", username, env, out)
    /\ UNCHANGED <<nextId, blobs, now, resp, lresp, resolveVars, localVars, taskVars,
                   adapterVars, migrateVars, leadVars>>

\* ------------------------------------------------------------------ migration

\* The cells of the CSV files, as text.
IdTexts == {"0", "1", "2", "x"}

\* int(row.get('id', 0)) on the text of an id cell: the number, or ValueError.
int(text) ==
    CASE text = "0" -> [raised |-> FALSE, value |-> 0]
      [] text = "1" -> [raised |-> FALSE, value |-> 1]
      [] text = "2" -> [raised |-> FALSE, value |-> 2]
      [] OTHER -> [raised |-> TRUE, value |-> 0]

\* str.strip() on the cells that occur in the files.
strip(text) ==
    CASE text = " carol " -> "carol"
      [] text = " " -> ""
      [] OTHER -> text

\* An empty timestamp cell.
Blank == -1

CsvFile(exists, rows) == [exists |-> exists, rows |-> rows]
CsvUser(username, password, role) == [username |-> username, password |-> password, role |-> role]
CsvLead(id, name, created_at) == [id |-> id, name |-> name, created_at |-> created_at]
CsvRecruiter(id, name) == [id |-> id, name |-> name]
CsvApplication(id, company, status) == [id |-> id, company |-> company, status |-> status]
ApplicationsCsv(username, rows) == [username |-> username, rows |-> rows]

LeadRow(name, created_at) == [name |-> name, created_at |-> created_at]
RecruiterRow(name) == [name |-> name]

\* One step of a section's loop: an INSERT ... ON CONFLICT DO NOTHING, a
\* row passed over, or an exception raised by the Python code before any SQL.
Insert(table, key, row) == [kind |-> "insert", table |-> table, key |-> key, row |-> row]
PassOver == [kind |-> "skip", table |-> None, key |-> 0, row |-> << >>]
Raise == [kind |-> "raise", table |-> None, key |-> 0, row |-> << >>]

\* main.py:272-282
user_statement(user) ==
    LET username == strip(user.username)
        password == strip(user.password) IN
    IF username # "" /\ password # ""
    THEN Insert("users", username, UserRow(password, strip(user.role)))
    ELSE PassOver

\* main.py:300-321
lead_statement(lead, t) ==
    LET lead_id == int(lead.id) IN
    IF lead_id.raised THEN Raise
    ELSE IF lead_id.value > 0
    THEN Insert("leads", lead_id.value,
                LeadRow(strip(lead.name), IF lead.created_at = Blank THEN t ELSE lead.created_at))
    ELSE PassOver

\* main.py:339-357
recruiter_statement(recruiter) ==
    LET recruiter_id == int(recruiter.id) IN
    IF recruiter_id.raised THEN Raise
    ELSE IF recruiter_id.value > 0
    THEN Insert("recruiters", recruiter_id.value, RecruiterRow(strip(recruiter.name)))
    ELSE PassOver

\* main.py:374-401: the username is the file's stem, the status defaults to
\* 'applied', and no Reference column is filled.
application_statement(username, app) ==
    LET app_id == int(app.id) IN
    IF app_id.raised THEN Raise
    ELSE IF app_id.value > 0
    THEN Insert("applications", app_id.value,
                AppRow(username, strip(app.company), << >>, NoRef,
                       strip(IF app.status = "" THEN "applied" ELSE app.status)))
    ELSE PassOver

\* The open transaction of a migration run: the four tables as the run
\* sees them, and whether a failed statement has aborted the transaction.
Tables(us, ls, rs, apps) == [users |-> us, leads |-> ls, recruiters |-> rs, applications |-> apps]
Transaction(tables, aborted) == [tables |-> tables, aborted |-> aborted]

with_row(table, key, row) ==
    [k \in DOMAIN table \cup {key} |-> IF k = key THEN row ELSE table[k]]

\* Whether the INSERT breaks the foreign key of applications.username.
violates_fk(stmt, tables, fk) ==
    fk /\ stmt.table = "applications" /\ stmt.row.username \notin DOMAIN tables.users

\* A variant of the INSERT with ON CONFLICT DO UPDATE: the row of the file
\* replaces the stored one.
execute_upsert(stmt, tx, fk) ==
    IF tx.aborted THEN [tx |-> tx, raised |-> TRUE]
    ELSE IF violates_fk(stmt, tx.tables, fk) /\ stmt.key \notin DOMAIN tx.tables[stmt.table]
    THEN [tx |-> Transaction(tx.tables, TRUE), raised |-> TRUE]
    ELSE [tx |-> Transaction([tx.tables EXCEPT ![stmt.table] = with_row(@, stmt.key, stmt.row)],
                            FALSE),
          raised |-> FALSE]

\* cur.execute of INSERT ... ON CONFLICT (key) DO NOTHING: in an aborted
\* transaction every statement fails; a row whose key is stored already is
\* left alone; a row that breaks the foreign key fails and aborts the
\* transaction.
execute(stmt, tx, fk) ==
    IF tx.aborted THEN [tx |-> tx, raised |-> TRUE]
    ELSE IF stmt.key \in DOMAIN tx.tables[stmt.table]
    THEN [tx |-> tx, raised |-> FALSE]
    ELSE IF violates_fk(stmt, tx.tables, fk)
    THEN [tx |-> Transaction(tx.tables, TRUE), raised |-> TRUE]
    ELSE [tx |-> Transaction([tx.tables EXCEPT ![stmt.table] = with_row(@, stmt.key, stmt.row)],
                            FALSE),
          raised |-> FALSE]

\* One section of the migration (main.py:266-290, 294-329, 333-365,
\* 373-409): the statements in file order; an exception, of the Python code
\* or of a statement, ends the section and is printed.
RECURSIVE section(_, _, _, _)
section(stmts, k, tx, fk) ==
    IF k > Len(stmts) THEN tx
    ELSE IF stmts[k].kind = "raise" THEN tx
    ELSE IF stmts[k].kind = "skip" THEN section(stmts, k + 1, tx, fk)
    ELSE LET done == execute(stmts[k], tx, fk) IN
         IF done.raised THEN done.tx ELSE section(stmts, k + 1, done.tx, fk)

\* The sections of the applications_*.csv files, in directory order.
RECURSIVE application_sections(_, _, _, _)
application_sections(files, f, tx, fk) ==
    IF f > Len(files) THEN tx
    ELSE application_sections(files, f + 1,
            section([k \in DOMAIN files[f].rows |->
                        application_statement(files[f].username, files[f].rows[k])],
                    1, tx, fk),
            fk)

\* The body of migrate_csv_to_aiven (main.py:260-411) and of
\* migrate_all_data (test_migrate.py:124-283) on an open connection: users,
\* leads, recruiters, applications, then commit. Committing an aborted
\* transaction rolls it back.
migrate(tables, dir, t, fk) ==
    LET tx0 == Transaction(tables, FALSE)
        tx1 == IF dir.users.exists
               THEN section([k \in DOMAIN dir.users.rows |-> user_statement(dir.users.rows[k])],
                            1, tx0, fk)
               ELSE tx0
        tx2 == IF dir.leads.exists
               THEN section([k \in DOMAIN dir.leads.rows |-> lead_statement(dir.leads.rows[k], t)],
                            1, tx1, fk)
               ELSE tx1
        tx3 == IF dir.recruiters.exists
               THEN section([k \in DOMAIN dir.recruiters.rows |->
                                recruiter_statement(dir.recruiters.rows[k])], 1, tx2, fk)
               ELSE tx2
        tx4 == application_sections(dir.application_files, 1, tx3, fk) IN
    [tables |-> IF tx4.aborted THEN tables ELSE tx4.tables, committed |-> ~tx4.aborted]

\* The names main.py defines at module level that a migration request can
\* call (main.py:253; there is no other migrate_ function).
ModuleNames == {"migrate_csv_to_aiven", "init_database_tables", "get_db_connection"}

\* What a run or a request did: whether the sections ran, whether the call
\* raised, the status of the response, whether the transaction was
\* committed, and whether the sections had run the time before.
MigrateResponse(op, ran, raised, status, committed, again) ==
    [op |-> op, ran |-> ran, raised |-> raised, status |-> status, committed |-> committed,
     again |-> again]

NoMigrateResponse == MigrateResponse("none", FALSE, FALSE, 0, FALSE, FALSE)

DbEnvs == {"up", "down"}

assign_tables(tables) ==
    /\ users' = tables.users
    /\ leads' = tables.leads
    /\ recruiters' = tables.recruiters
    /\ applications' = tables.applications

\* What init_database_tables (main.py:153-251) leaves of the foreign key:
\* it adds fk_username when it is missing, and the ALTER TABLE fails, and is
\* printed, when a stored application names no stored user.
init_database_tables(fk, us, apps) ==
    fk \/ \A i \in DOMAIN apps : apps[i].username \in DOMAIN us

\* The start of the application (main.py:428-441): init_database_tables,
\* then migrate_csv_to_aiven. Without a connection the import fails and
\* nothing is changed.
migrate_csv_to_aiven(db) ==
    /\ IF db = "down"
       THEN /\ mresp' = MigrateResponse("migrate_csv_to_aiven", FALSE, TRUE, 0, FALSE,
                                        mresp.ran)
            /\ UNCHANGED <<users, leads, recruiters, applications, fk_username>>
       ELSE LET fk == init_database_tables(fk_username, users, applications)
                out == migrate(Tables(users, leads, recruiters, applications), datadir, now,
                               fk) IN
            /\ assign_tables(out.tables)
            /\ fk_username' = fk
            /\ mresp' = MigrateResponse("migrate_csv_to_aiven", TRUE, FALSE, 0, out.committed,
                                        mresp.ran)
    /\ UNCHANGED <<nextId, blobs, now, resp, datadir, uresp, leadVars, resolveVars, localVars,
                   taskVars, adapterVars, listVars>>

\* test_migrate.py main (364-384): its init_database_tables creates the
\* tables that are missing, without a foreign key, and migrate_all_data runs
\* the same sections; without a connection it returns False.
migrate_all_data(db) ==
    /\ IF db = "down"
       THEN /\ mresp' = MigrateResponse("migrate_all_data", FALSE, FALSE, 0, FALSE,
                                        mresp.ran)
            /\ UNCHANGED <<users, leads, recruiters, applications>>
       ELSE LET out == migrate(Tables(users, leads, recruiters, applications), datadir, now,
                               fk_username) IN
            /\ assign_tables(out.tables)
            /\ mresp' = MigrateResponse("migrate_all_data", TRUE, FALSE, 0, out.committed,
                                        mresp.ran)
    /\ UNCHANGED <<nextId, blobs, now, resp, datadir, fk_username, uresp, leadVars, resolveVars,
                   localVars, taskVars, adapterVars, listVars>>

\* POST /admin/migrate (main.py:2334-2341): calls migrate_csv_to_supabase
\* inside try; a name that the module does not define raises NameError at
\* the call, which the handler turns into 500.
manual_migrate_outcome(tables, dir, t, fk, db, again) ==
    IF "migrate_csv_to_supabase" \notin ModuleNames
    THEN [tables |-> tables,
          response |-> MigrateResponse("manual_migrate", FALSE, TRUE, 500, FALSE, again)]
    ELSE IF db = "down"
    THEN [tables |-> tables,
          response |-> MigrateResponse("manual_migrate", FALSE, TRUE, 500, FALSE, again)]
    ELSE LET out == migrate(tables, dir, t, fk) IN
         [tables |-> out.tables,
          response |-> MigrateResponse("manual_migrate", TRUE, FALSE, 200, out.committed, again)]

manual_migrate(db) ==
    /\ LET out == manual_migrate_outcome(Tables(users, leads, recruiters, applications), datadir,
                                         now, fk_username, db, mresp.ran) IN
        /\ assign_tables(out.tables)
        /\ mresp' = out.response
    /\ UNCHANGED <<nextId, blobs, now, resp, datadir, fk_username, uresp, leadVars, resolveVars,
                   localVars, taskVars, adapterVars, listVars>>

\* ------------------------------------------------------------------ leads

LeadCalls == 1..MaxLeadCalls
LeadNames == {"ann", "ben"}

max_id(ids) == IF ids = {} THEN 0 ELSE CHOOSE i \in ids : \A j \in ids : j <= i

\* write_leads (main.py:571-611) in one transaction: SELECT id FROM leads,
\* then for every lead of the list an UPDATE of name, phone, email, status
\* and comment when its id is stored, an INSERT when it is not.
write_leads(list, table) ==
    [i \in DOMAIN table \cup DOMAIN list |->
        IF i \notin DOMAIN list THEN table[i]
        ELSE IF i \in DOMAIN table THEN [table[i] EXCEPT !.name = list[i].name]
        ELSE list[i]]

LeadResponse(status, id, name) == [status |-> status, id |-> id, name |-> name]
NoLeadResponse == LeadResponse(0, 0, None)

\* POST /admin/leads, first half (main.py:1655-1676): read_leads, the new id
\* max + 1 (1 for no leads), the new lead appended to the list. Calls that
\* one worker serves do not overlap: the handler does not await.
create_lead_read(p, name, db) ==
    /\ cpc[p] = "idle"
    /\ workers = 1 => \A q \in LeadCalls : cpc[q] # "read"
    /\ IF db = "down"
       THEN /\ cpc' = [cpc EXCEPT ![p] = "done"]
            /\ cresp' = [cresp EXCEPT ![p] = LeadResponse(500, 0, name)]
            /\ UNCHANGED clist
       ELSE LET new_id == max_id(DOMAIN leads) + 1 IN
            /\ cpc' = [cpc EXCEPT ![p] = "read"]
            /\ clist' = [clist EXCEPT ![p] =
                            [i \in DOMAIN leads \cup {new_id} |->
                                IF i = new_id THEN LeadRow(name, now) ELSE leads[i]]]
            /\ cresp' = [cresp EXCEPT ![p] = LeadResponse(0, new_id, name)]
    /\ UNCHANGED <<workers, leads, recruiters, datadir, fk_username, mresp, uresp, writeVars,
                   resolveVars, localVars, taskVars, adapterVars, listVars>>

\* POST /admin/leads, second half (main.py:1677-1678): write_leads with the
\* list, then the response with the new lead.
create_lead_write(p) ==
    /\ cpc[p] = "read"
    /\ leads' = write_leads(clist[p], leads)
    /\ cpc' = [cpc EXCEPT ![p] = "done"]
    /\ cresp' = [cresp EXCEPT ![p].status = 200]
    /\ UNCHANGED <<workers, clist, recruiters, datadir, fk_username, mresp, uresp, writeVars,
                   resolveVars, localVars, taskVars, adapterVars, listVars>>

\* The data directories a migration starts from.
UsersCsvs ==
    {CsvFile(FALSE, << >>),
     CsvFile(TRUE, <<CsvUser("alice", "sha256(pw1)", "admin"), CsvUser(" carol ", "sha256(pw0)", "user")>>),
     CsvFile(TRUE, <<CsvUser("carol", " ", "user"), CsvUser("carol", "sha256(pw0)", "user"),
                     CsvUser("carol", "sha256(pw1)", "admin")>>)}

LeadsCsvs ==
    {CsvFile(FALSE, << >>),
     CsvFile(TRUE, <<CsvLead("1", "ann", Blank), CsvLead("2", "ben", 0)>>),
     CsvFile(TRUE, <<CsvLead("2", "ben", Blank), CsvLead("x", "cy", 0), CsvLead("1", "ann", 0)>>),
     CsvFile(TRUE, <<CsvLead("0", "nil", 0), CsvLead("1", "ann", 0), CsvLead("1", "dup", 0)>>)}

RecruitersCsvs ==
    {CsvFile(FALSE, << >>), CsvFile(TRUE, <<CsvRecruiter("1", "rex"), CsvRecruiter("x", "ray")>>)}

ApplicationFiles ==
    {<< >>,
     <<ApplicationsCsv("alice", <<CsvApplication("1", "acme", ""),
                                  CsvApplication("2", "initech", "interview")>>)>>,
     <<ApplicationsCsv("carol", <<CsvApplication("2", "acme", "")>>),
       ApplicationsCsv("alice", <<CsvApplication("2", "initech", "offer")>>)>>,
     <<ApplicationsCsv("alice", <<CsvApplication("2", "initech", "offer")>>),
       ApplicationsCsv("carol", <<CsvApplication("2", "acme", "")>>)>>}

DataDirs ==
    [users : UsersCsvs, leads : LeadsCsvs, recruiters : RecruitersCsvs,
     application_files : ApplicationFiles]

NoDataDir ==
    [users |-> CsvFile(FALSE, << >>), leads |-> CsvFile(FALSE, << >>),
     recruiters |-> CsvFile(FALSE, << >>), application_files |-> << >>]

\* The tables a migration may find: empty ones, or rows that carry keys of
\* the files with other contents.
StartLeads == {<< >>, <<LeadRow("stored", 0)>>}
StartRecruiters == {<< >>, <<RecruiterRow("stored")>>}

\* ------------------------------------------------------------------ local disk

\* The hard ceiling of the sequential names db1, db2, ...
LocalCeiling == 10000

Ingests == 1..MaxIngests
Extensions == {".pdf", ".docx"}
NoName == [slot |-> 0, ext |-> None]

\* A probe whose last candidate is db<ceiling - 1>.
get_next_local_filename_short(occupied) ==
    LET free == (1..(LocalCeiling - 1)) \ occupied IN
    IF free = {} THEN 0 ELSE CHOOSE n \in free : \A m \in free : n <= m

\* The probe of LocalDiskAdapter: the first n in 1..ceiling for which no file
\* db<n> exists, 0 when every name up to the ceiling is taken.
get_next_local_filename(occupied) ==
    LET free == (1..LocalCeiling) \ occupied IN
    IF free = {} THEN 0 ELSE CHOOSE n \in free : \A m \in free : n <= m

\* First half of upload_to_local: probe for the next free name, keeping the
\* extension of the original file name; BackendUnavailable beyond the ceiling.
local_probe(p, ext) ==
    /\ lpc[p] = "idle"
    /\ LET n == get_next_local_filename(DOMAIN disk) IN
          IF n = 0
          THEN /\ lpc' = [lpc EXCEPT ![p] = "failed"]
               /\ lname' = lname
          ELSE /\ lpc' = [lpc EXCEPT ![p] = "probed"]
               /\ lname' = [lname EXCEPT ![p] = [slot |-> n, ext |-> ext]]
    /\ UNCHANGED <<disk, writeVars, resolveVars, extVars>>

\* Second half of upload_to_local: create the file under the chosen name
\* (an existing file of that name is overwritten) and return the Reference.
local_write(p) ==
    /\ lpc[p] = "probed"
    /\ disk' = [n \in DOMAIN disk \cup {lname[p].slot} |->
                   IF n = lname[p].slot THEN p ELSE disk[n]]
    /\ lpc' = [lpc EXCEPT ![p] = "done"]
    /\ UNCHANGED <<lname, writeVars, resolveVars, extVars>>

\* The directory holds db1 .. db<k>, written before the ingests start.
Filled(k) == [n \in 1..k |-> 0]

StartDisks ==
    {Filled(0), Filled(1), Filled(LocalCeiling - 2), Filled(LocalCeiling - 1),
     Filled(LocalCeiling), [n \in {1, 3} |-> 0]}

\* ------------------------------------------------------------------ system

InitBase ==
    /\ blobs = << >>
    /\ now = 0
    /\ resp = NoResp
    /\ rresp = NoResolved
    /\ prevView = NoResolved
    /\ lpc = [p \in Ingests |-> "idle"]
    /\ lname = [p \in Ingests |-> NoName]
    /\ tblobs = << >>
    /\ tresp = NoTaskResp
    /\ dfiles = << >>
    /\ bucket = << >>
    /\ slog = << >>
    /\ spc = [p \in Stores |-> "idle"]
    /\ sjob = [p \in Stores |-> NoJob]
    /\ aresp = NoAdapterResponse
    /\ lresp = NoListing
    /\ uresp = NoAdminResponse
    /\ mresp = NoMigrateResponse
    /\ cpc = [p \in LeadCalls |-> "idle"]
    /\ clist = [p \in LeadCalls |-> << >>]
    /\ cresp = [p \in LeadCalls |-> NoLeadResponse]

InitCore ==
    /\ InitBase
    /\ tasks = << >>
    /\ tnextId = 1

InitRest ==
    /\ InitCore
    /\ workers = 1
    /\ leads = << >>
    /\ recruiters = << >>
    /\ datadir = NoDataDir
    /\ fk_username = TRUE

InitRequests ==
    /\ InitRest
    /\ users = UsersOf({"alice"})
    /\ applications = << >>
    /\ nextId = 1
    /\ csvfiles = << >>

Init ==
    /\ InitRequests
    /\ disk = Filled(0)

Next ==
    \/ \E u \in Usernames, f \in Uploads, e \in Envs :
          create_application(u, "acme", f, e)
    \/ \E i \in 1..MaxApps, u \in Usernames, c \in {None},
          s \in StatusInputs \cup {None}, f \in Uploads \cup {NoFile}, e \in Envs :
          update_application(i, u, c, s, f, e)
    \/ Tick

Spec == Init /\ [][Next]_vars

\* The upload steps of the handlers that take a file: create_application and
\* create_task under every storage environment.
TaskEnvs ==
    {EnvOf(db, azure, write, ChainSuffix(0)) :
        db \in {"up", "down"}, azure \in {"ok", "unconfigured", "fail"},
        write \in {"ok", "fail"}}

NextUploadStep ==
    \/ \E e \in Envs : create_application("alice", "acme", [filename |-> cv_pdf, content |-> "d1"], e)
    \/ \E p \in {"high", "urgent"}, s \in {"todo", "finished"}, d \in DueDates,
          f \in {NoFile, [filename |-> cv_txt, content |-> "d1"]}, e \in TaskEnvs :
          create_task(p, s, d, f, e)

SpecUploadStep == Init /\ [][NextUploadStep]_vars

\* File replacements: one user creates applications and replaces their files,
\* with the same or another file name and other content, within one second
\* of the wall clock or across seconds.
ReplaceEnvs == {EnvOf("up", a, "ok", ChainSuffix(0)) : a \in {"ok", "fail"}}

NextReplace ==
    \/ \E c \in Contents, e \in ReplaceEnvs :
          create_application("alice", "acme", [filename |-> cv_pdf, content |-> c], e)
    \/ \E i \in 1..MaxApps, f \in [filename : {cv_pdf, cv_docx}, content : Contents],
          e \in ReplaceEnvs :
          update_application(i, "alice", None, None, f, e)
    \/ Tick

SpecReplace == Init /\ [][NextReplace]_vars

\* Listing: get_applications and read_applications over a table and a data
\* directory that are there already.
InitList ==
    /\ InitRest
    /\ users = UsersOf({"alice", "bob"})
    /\ applications \in ListTables
    /\ nextId = Len(applications) + 1
    /\ csvfiles \in StartCsvFiles
    /\ disk = Filled(0)

NextList ==
    \/ \E u \in Usernames, page \in Pages, limit \in Limits, env \in ListEnvs :
          get_applications(u, page, limit, env)
    \/ \E u \in Usernames, env \in ReadEnvs : read_applications(u, env)

SpecList == InitList /\ [][NextList]_vars

\* The migration, run at the start of the application, by the migration
\* script and on request, over the data directories and the tables it may
\* find.
InitMigrate ==
    /\ InitCore
    /\ users = UsersOf({"alice"})
    /\ applications \in {<< >>, ListTable(1, FALSE)}
    /\ nextId = 1
    /\ csvfiles = << >>
    /\ disk = Filled(0)
    /\ leads \in StartLeads
    /\ recruiters \in StartRecruiters
    /\ datadir \in DataDirs
    /\ fk_username \in BOOLEAN
    /\ workers = 1

NextMigrate ==
    \/ \E db \in DbEnvs : migrate_csv_to_aiven(db)
    \/ \E db \in DbEnvs : migrate_all_data(db)
    \/ \E db \in DbEnvs : manual_migrate(db)
    \/ Tick

SpecMigrate == InitMigrate /\ [][NextMigrate]_vars

\* Changes and deletions of the applications of two users.
OwnerEnvs ==
    {EnvOf("up", "ok", "ok", ChainSuffix(0)), EnvOf("up", "ok", "fail", ChainSuffix(0)),
     EnvOf("down", "ok", "ok", ChainSuffix(0))}
DeleteEnvs ==
    {DeleteEnv("up", "ok", ReadEnv("up", "ok")), DeleteEnv("up", "ok", ReadEnv("down", "ok")),
     DeleteEnv("up", "fail", ReadEnv("up", "ok")), DeleteEnv("down", "ok", ReadEnv("up", "ok"))}

InitOwner ==
    /\ InitRest
    /\ users = UsersOf({"alice", "bob"})
    /\ applications \in {ListTable(n, TRUE) : n \in 1..MaxOwned}
    /\ nextId = Len(applications) + 1
    /\ csvfiles = << >>
    /\ disk = Filled(0)

NextOwner ==
    \/ \E i \in 1..(MaxOwned + 1), u \in Usernames, e \in OwnerEnvs :
          \/ update_application(i, u, "initech", None, NoFile, e)
          \/ update_application(i, u, None, None, [filename |-> cv_docx, content |-> "d1"], e)
    \/ \E i \in 1..(MaxOwned + 1), u \in Usernames, e \in DeleteEnvs :
          delete_application(i, u, e)

SpecOwner == InitOwner /\ [][NextOwner]_vars

\* Tasks created and changed, with priorities and statuses of the lists and
\* others, from a table of valid tasks.
StartTasks == {<< >>, <<TaskRow("low", "todo", None, NoRef, << >>)>>}

TaskStepEnvs ==
    {EnvOf("up", "ok", "ok", ChainSuffix(0)), EnvOf("up", "fail", "ok", ChainSuffix(0)),
     EnvOf("up", "ok", "fail", ChainSuffix(0)), EnvOf("down", "ok", "ok", ChainSuffix(0))}

InitTasks ==
    /\ InitBase
    /\ tasks \in StartTasks
    /\ tnextId = Len(tasks) + 1
    /\ workers = 1
    /\ leads = << >>
    /\ recruiters = << >>
    /\ datadir = NoDataDir
    /\ fk_username = TRUE
    /\ users = UsersOf({"alice"})
    /\ applications = << >>
    /\ nextId = 1
    /\ csvfiles = << >>
    /\ disk = Filled(0)

NextTasks ==
    \/ \E p \in {"high", "urgent"}, s \in {"todo", "finished"}, e \in TaskStepEnvs :
          create_task(p, s, None, NoFile, e)
    \/ \E i \in 1..(MaxTasks + 1), p \in {None, "critical", "urgent"},
          s \in {None, "done", "finished"}, e \in TaskStepEnvs :
          update_task(i, p, s, None, NoFile, e)
    \/ \E i \in 1..(MaxTasks + 1), p \in {None, "urgent"} :
          update_task(i, p, None, "31/01/2026", NoFile, EnvOf("up", "ok", "ok", ChainSuffix(0)))
    \/ \E i \in 1..(MaxTasks + 1), s \in {None, "done"}, a \in {"ok", "fail"} :
          update_task(i, None, s, None, [filename |-> cv_txt, content |-> "d1"],
                      EnvOf("up", a, "ok", ChainSuffix(0)))

SpecTasks == InitTasks /\ [][NextTasks]_vars

\* Leads created by calls that one worker or several workers serve.
InitLeads ==
    /\ InitCore
    /\ users = UsersOf({"alice"})
    /\ applications = << >>
    /\ nextId = 1
    /\ csvfiles = << >>
    /\ disk = Filled(0)
    /\ recruiters = << >>
    /\ datadir = NoDataDir
    /\ fk_username = TRUE
    /\ leads \in StartLeads
    /\ workers \in 1..MaxLeadCalls

NextLeads ==
    \/ \E p \in LeadCalls, name \in LeadNames, db \in DbEnvs : create_lead_read(p, name, db)
    \/ \E p \in LeadCalls : create_lead_write(p)
    \/ Tick

SpecLeads == InitLeads /\ [][NextLeads]_vars

\* User administration on a database that holds applications already.
NextUsers ==
    \E u \in {"alice", "carol", "dave"}, role \in {"user", "admin"}, env \in AdminEnvs :
        create_user(u, "pw1", role, env)

SpecUsers == InitList /\ [][NextUsers]_vars

\* The storage adapters, each called on its own, and the Azure block of
\* create_application.
NextAdapters ==
    \/ \E env \in AdapterEnvs, f \in {cv_pdf} : upload_to_google_drive(env, f)
    \/ \E env \in AdapterEnvs, f \in {cv_pdf} : upload_to_cloudinary(env, f)
    \/ \E env \in AdapterEnvs, f \in {cv_pdf} : upload_to_supabase_upload(1, env, f)
    \/ upload_to_supabase_return(1)
    \/ \E e \in Envs :
          create_application("alice", "acme", [filename |-> cv_pdf, content |-> "d1"], e)

SpecAdapters == Init /\ [][NextAdapters]_vars

\* Concurrent stores through upload_to_supabase.
NextBucket ==
    \/ \E p \in Stores, env \in AdapterEnvs, f \in {cv_pdf, cv_docx} :
          upload_to_supabase_upload(p, env, f)
    \/ \E p \in Stores : upload_to_supabase_return(p)

SpecBucket == Init /\ [][NextBucket]_vars

\* The resolvers alone: view_file and download_file requests.
NextResolve ==
    \/ \E url \in Urls, fetch \in Fetches : view_file(url, fetch)
    \/ \E url \in Urls, fetch \in Fetches : download_file(url, fetch)

SpecResolve == Init /\ [][NextResolve]_vars

\* The local-disk adapter alone: concurrent ingests on a directory that holds
\* some files already.
InitLocal ==
    /\ InitRequests
    /\ disk \in StartDisks

NextLocal ==
    \/ \E p \in Ingests, ext \in Extensions : local_probe(p, ext)
    \/ \E p \in Ingests : local_write(p)

SpecLocal == InitLocal /\ [][NextLocal]_vars

\* ------------------------------------------------------------------ claims on the upload path

IsWrite == resp.op \in {"create_application", "update_application"}
IsWriteNext == resp'.op \in {"create_application", "update_application"}

AzureCalls == {"azure.create_container", "azure.upload_blob"}

\* The part of a file name from its last dot on (empty without a dot).
extension_of(filename) ==
    LET dots == {i \in 1..Len(filename) : filename[i] = "."} IN
    IF dots = {} THEN <<>>
    ELSE SubSeq(filename, CHOOSE i \in dots : \A j \in dots : j <= i, Len(filename))

\* The first backend of the priority list that would succeed, 0 when none.
FirstHealthy(healthy) ==
    IF \E i \in 1..Len(Priority) : Priority[i] \in healthy
    THEN CHOOSE i \in 1..Len(Priority) :
            Priority[i] \in healthy /\ \A j \in 1..(i - 1) : Priority[j] \notin healthy
    ELSE 0

C3_UploadFailureRejectsWrite ==
    [][(IsWriteNext /\ resp'.upload = "failed")
          => (resp'.status >= 400 /\ applications' = applications /\ nextId' = nextId)]_vars

\* A file replacement on an existing row failed at the upload.
C3_Witness ==
    /\ resp.op = "update_application"
    /\ resp.upload = "failed"
    /\ resp.found
    /\ applications # << >>

BadExtensionNext ==
    /\ IsWriteNext
    /\ resp'.filename # <<>>
    /\ extension_of(resp'.filename) \notin ALLOWED_SUFFIXES

\* C4 as stated: an upload whose extension is not .pdf, .doc or .docx is
\* answered 400, before any storage call and without touching any record.
C4_BadExtensionAsStated ==
    [][BadExtensionNext
          => /\ resp'.status = 400
             /\ resp'.calls = <<>>
             /\ applications' = applications
             /\ blobs' = blobs]_vars

\* C4 amended: such an upload is always rejected before any storage call and
\* without touching any record; create_application answers 400, and
\* update_application answers 400 when the database is reachable and the row
\* exists, 500 when the database is unreachable, 404 when the row is missing.
C4_BadExtensionRejected ==
    [][BadExtensionNext
          => /\ resp'.upload = "none"
             /\ resp'.calls = <<>>
             /\ applications' = applications
             /\ blobs' = blobs
             /\ resp'.op = "create_application" => resp'.status = 400
             /\ resp'.op = "update_application" =>
                   resp'.status = IF resp'.env.db = "down" THEN 500
                                  ELSE IF resp'.found THEN 400 ELSE 404]_vars

\* A file replacement with a .txt file on an existing row.
C4_Witness ==
    /\ resp.op = "update_application"
    /\ resp.filename = cv_txt
    /\ resp.found
    /\ resp.status = 400

\* C5: a file whose extension is an upper- or mixed-case spelling of an
\* allowed type is accepted by the extension check (it is never answered
\* with the 400 of the check).
C5_CaseInsensitiveExtension ==
    (IsWrite /\ resp.filename # <<>>
       /\ lower(extension_of(resp.filename)) \in ALLOWED_SUFFIXES)
        => resp.status # 400

\* C12: a failure of the storage backend inside the upload step of
\* create_application or create_task never leaves the handler as the
\* backend's own exception: the step either yields a Reference to the stored
\* object, or the request ends with one HTTPException of status 500 whose
\* detail carries the reason of the one backend that was tried.
C12_UploadFailureWrapped ==
    /\ (resp.op = "create_application" /\ resp.upload = "failed")
          => /\ ~resp.unhandled
             /\ resp.status = 500
             /\ Len(resp.detail) = 1 /\ resp.detail[1] # None
    /\ (resp.op = "create_application" /\ resp.upload = "ok" /\ resp.status = 200)
          => (resp.ref.kind = AzureBlob /\ resp.ref.blob \in DOMAIN blobs)
    /\ (tresp.op = "create_task" /\ tresp.upload = "failed")
          => /\ tresp.raised = "HTTPException"
             /\ tresp.status = 500
             /\ Len(tresp.reasons) = 1 /\ tresp.reasons[1] # None
    /\ (tresp.op = "create_task" /\ tresp.upload = "ok" /\ tresp.status = 200)
          => (tresp.ref.kind = AzureBlob /\ tresp.ref.blob \in DOMAIN tblobs)

\* The upload of a task attachment failed inside the storage client, and the
\* last application upload failed for missing credentials.
C12_Witness ==
    /\ tresp.op = "create_task"
    /\ tresp.upload = "failed"
    /\ tresp.env.azure = "fail"
    /\ tresp.calls = <<"azure.upload_blob">>
    /\ resp.op = "create_application"
    /\ resp.upload = "failed"
    /\ resp.env.azure = "unconfigured"

\* C18: a file replacement through update_application stores the new file
\* under a name no stored object has, gives the row a Reference different
\* from the one it had, and leaves every object stored before as it was.
C18_ReplacementStoresNewObject ==
    [][(resp'.op = "update_application" /\ resp'.upload = "ok" /\ resp'.status = 200)
          => /\ resp'.ref.blob \notin DOMAIN blobs
             /\ \A n \in DOMAIN blobs : n \in DOMAIN blobs' /\ blobs'[n] = blobs[n]
             /\ \A i \in DOMAIN applications :
                   applications'[i].resume_file_url # applications[i].resume_file_url
                      \/ applications'[i] = applications[i]]_vars

\* ------------------------------------------------------------------ claims on the adapters

\* C15: an upload whose backend has no credentials fails at once, as
\* unavailable, without a single remote call: upload_to_google_drive,
\* upload_to_supabase and upload_to_cloudinary raise "... not available",
\* and the Azure block of create_application fails before it builds a client.
C15_UnconfiguredFailsWithoutCall ==
    /\ (aresp.op \in {"upload_to_google_drive", "upload_to_cloudinary"}
          /\ ~aresp.env.configured)
          => /\ ~aresp.ok
             /\ aresp.calls = <<>>
             /\ aresp.links = NoLinks
             /\ aresp.reason \in {"Google Drive service not available",
                                  "Cloudinary service not available"}
    /\ \A p \in Stores :
          (spc[p] # "idle" /\ ~sjob[p].env.configured)
              => /\ spc[p] = "failed"
                 /\ sjob[p].calls = <<>>
                 /\ sjob[p].reason = "Supabase service not available"
    /\ (resp.op = "create_application" /\ resp.upload # "none"
          /\ resp.env.azure = "unconfigured")
          => /\ resp.upload = "failed"
             /\ resp.calls = <<>>
             /\ resp.detail = <<"Azure Storage credentials not configured">>

\* Drive, Supabase and Azure were each called without their credentials.
C15_Witness ==
    /\ aresp.op = "upload_to_google_drive"
    /\ ~aresp.env.configured
    /\ aresp.env.first
    /\ spc[1] = "failed"
    /\ ~sjob[1].env.configured
    /\ resp.op = "create_application"
    /\ resp.env.azure = "unconfigured"
    /\ resp.upload = "failed"

DriveCalls == <<"drive.files.create", "drive.permissions.create">>

\* C16: upload_to_google_drive returns its links only after files.create
\* and then permissions.create both succeeded, and the file they name is
\* readable by anyone; when permissions.create fails after the file was
\* created the call raises and returns no links.
C16_DriveLinksOnlyAfterBothCalls ==
    aresp.op = "upload_to_google_drive" =>
        /\ aresp.ok <=> aresp.links # NoLinks
        /\ aresp.ok
              => /\ aresp.calls = DriveCalls
                 /\ aresp.env.first /\ aresp.env.second
                 /\ aresp.links.file_id \in 1..Len(dfiles)
                 /\ dfiles[aresp.links.file_id].public
        /\ (aresp.env.configured /\ aresp.env.first /\ ~aresp.env.second)
              => /\ ~aresp.ok
                 /\ aresp.calls = DriveCalls
                 /\ aresp.links = NoLinks

\* The file was created in Drive, the permission call failed, and the call
\* ended without links.
C16_Witness ==
    /\ aresp.op = "upload_to_google_drive"
    /\ aresp.env.configured /\ aresp.env.first /\ ~aresp.env.second
    /\ ~aresp.ok
    /\ dfiles # <<>>
    /\ ~dfiles[Len(dfiles)].public

\* The upload_to_supabase call that wrote key last, 0 when none did.
LastWriter(key) ==
    LET writes == {i \in 1..Len(slog) : sjob[slog[i]].filename = key} IN
    IF writes = {} THEN 0 ELSE slog[CHOOSE i \in writes : \A j \in writes : j <= i]

\* C17: upload_to_supabase calls with the same file name write the same key:
\* a call whose remote upload goes through succeeds whether or not the key
\* exists, calls with the same file name return identical links, and the
\* bucket holds under each key the content of the call that wrote it last.
C17_SameKeyLastWriterWins ==
    /\ \A p \in Stores :
          (spc[p] # "idle" /\ sjob[p].env.configured /\ sjob[p].env.first)
              => spc[p] \in {"uploaded", "done"}
    /\ \A p, q \in Stores :
          (spc[p] = "done" /\ spc[q] = "done" /\ sjob[p].filename = sjob[q].filename)
              => (sjob[p].links = sjob[q].links /\ sjob[p].links # NoLinks)
    /\ \A p, q \in Stores :
          (spc[p] = "done" /\ spc[q] = "done" /\ sjob[p].filename # sjob[q].filename)
              => sjob[p].links # sjob[q].links
    /\ \A key \in DOMAIN bucket :
          LastWriter(key) # 0 /\ bucket[key] = sjob[LastWriter(key)].content

\* Two calls stored cv.pdf, call 2 before call 1, and the bucket holds the
\* content of call 1.
C17_Witness ==
    /\ spc[1] = "done" /\ spc[2] = "done"
    /\ sjob[1].filename = cv_pdf /\ sjob[2].filename = cv_pdf
    /\ slog = <<2, 1>>
    /\ bucket[cv_pdf] = 1

\* ------------------------------------------------------------------ claims on the listing

\* The rows the result was taken from: the user's rows of the table, or the
\* rows of the user's CSV file.
OwnedItems ==
    IF lresp.source = "csv"
    THEN {CsvItem(csvfiles[lresp.username][k]) : k \in DOMAIN csvfiles[lresp.username]}
    ELSE {DbItem(i) : i \in {j \in DOMAIN applications :
                                applications[j].username = lresp.username}}

\* C19: what get_applications returns holds only rows of the user, at most
\* limit of them, those at offset (page-1)*limit of the user's rows, with
\* page raised to at least 1 and limit brought into 1..100; total is the
\* number of the user's rows and total_pages is ceil(total/limit), 0 when
\* total is 0.
C19_PageOfOwnRows ==
    (lresp.op = "get_applications" /\ ~lresp.raised) =>
        LET page == IF lresp.page < 1 THEN 1 ELSE lresp.page
            limit == IF lresp.limit < 1 THEN 1
                     ELSE IF lresp.limit > 100 THEN 100 ELSE lresp.limit
            offset == (page - 1) * limit
            pg == lresp.pagination
            n == Len(lresp.items)
        IN
        /\ pg.page = page /\ pg.limit = limit
        /\ n <= limit
        /\ \A k \in 1..n : lresp.items[k] \in OwnedItems
        /\ \A k, m \in 1..n : k # m => lresp.items[k] # lresp.items[m]
        /\ pg.total = Cardinality(OwnedItems)
        /\ n = (IF pg.total - offset >= limit THEN limit
                ELSE IF pg.total > offset THEN pg.total - offset ELSE 0)
        /\ \A k \in 1..n :
              lresp.items[k].source = "db" =>
                 Cardinality({it \in OwnedItems : it.id > lresp.items[k].id})
                    = offset + k - 1
        /\ IF pg.total = 0 THEN pg.total_pages = 0
           ELSE /\ pg.total_pages * limit >= pg.total
                /\ (pg.total_pages - 1) * limit < pg.total

\* Page 2 at limit 1 of a table that holds rows of alice as well returned
\* one row of bob.
C19_Witness ==
    /\ lresp.op = "get_applications"
    /\ lresp.username = "bob"
    /\ lresp.page = 2 /\ lresp.limit = 1
    /\ Len(lresp.items) = 1
    /\ lresp.items[1].source = "db"
    /\ lresp.pagination.total_pages >= 2
    /\ \E i \in DOMAIN applications : applications[i].username = "alice"

\* C20: read_applications returns the user's rows of the table when the
\* database answers, and the rows of the user's CSV file, without raising,
\* when the connection cannot be had or the query fails.
C20_ReadFallsBackToCsv ==
    lresp.op = "read_applications" =>
        /\ ~lresp.raised
        /\ IF lresp.env.db = "up" /\ lresp.env.query = "ok"
           THEN lresp.source = "db" /\ {lresp.items[k] : k \in DOMAIN lresp.items} = OwnedItems
           ELSE /\ lresp.username \in DOMAIN csvfiles
                /\ lresp.items = [k \in DOMAIN csvfiles[lresp.username] |->
                                     CsvItem(csvfiles[lresp.username][k])]

\* ------------------------------------------------------------------ claims on the leads

\* C25: when two create_lead calls have succeeded, however their steps were
\* interleaved, their leads have distinct ids and each is stored as its call
\* created it.
C25_BothLeadsKept ==
    \A p, q \in LeadCalls :
        (p # q /\ cpc[p] = "done" /\ cpc[q] = "done"
         /\ cresp[p].status = 200 /\ cresp[q].status = 200)
            => /\ cresp[p].id # cresp[q].id
               /\ cresp[p].id \in DOMAIN leads
               /\ leads[cresp[p].id].name = cresp[p].name

\* ------------------------------------------------------------------ claims on connections

\* C27: when a request has ended, with a response or with an error, the
\* connection its handler opened is closed.
C27_ConnectionClosedAfterRequest ==
    resp.conn # "open" /\ tresp.conn # "open"

\* ------------------------------------------------------------------ claims on the tasks

ValidTasks == \A i \in DOMAIN tasks : tasks[i].priority \in PRIORITIES /\ tasks[i].status \in STATUSES

TaskRequest(r) == r.op \in {"create_task", "update_task"}

\* The request carries a priority or a status that is not of the lists.
CarriesInvalid(r) ==
    \/ r.priority # None /\ r.priority \notin PRIORITIES
    \/ r.task_status # None /\ r.task_status \notin STATUSES

OwnerRequest(r) == r.op \in {"update_application", "delete_application"}

Matching(apps, r) == {i \in DOMAIN apps : i = r.row_id /\ apps[i].username = r.username}

\* C26: update_application and delete_application touch no application row
\* but the one whose id and owner are those of the request; when the
\* database answers and there is no such row the response is 404 and the
\* table is as it was.
C26_OnlyOwnRowAffected ==
    [][(OwnerRequest(resp') /\ resp' # resp)
          => /\ \A i \in DOMAIN applications \ Matching(applications, resp') :
                   i \in DOMAIN applications' /\ applications'[i] = applications[i]
             /\ DOMAIN applications' \subseteq DOMAIN applications
             /\ (Matching(applications, resp') = {} /\ resp'.env.db = "up"
                   /\ resp'.env.write = "ok")
                   => resp'.status = 404 /\ applications' = applications]_vars

\* A request of bob for a row of alice has been answered beside a row of bob.
C26_Witness ==
    /\ OwnerRequest(resp) /\ resp.username = "bob" /\ resp.status = 404
    /\ resp.row_id \in DOMAIN applications /\ applications[resp.row_id].username = "alice"
    /\ \E i \in DOMAIN applications : applications[i].username = "bob"

\* ------------------------------------------------------------------ claims on stored blobs

\* C23: a write request that is answered with an error has written no blob:
\* the application container and the task container are as they were.
C23_ErrorLeavesNoBlob ==
    [][/\ (resp' # resp /\ resp'.status >= 400) => blobs' = blobs
       /\ (tresp' # tresp /\ tresp'.status >= 400) => tblobs' = tblobs]_vars

\* C24: two successful uploads of create_application or update_application
\* never share a blob path: an upload that succeeds takes a path under which
\* nothing is stored, and the file of every stored application stays as it
\* was uploaded, also for the same user, file name and second.
C24_UploadsUnderDistinctPaths ==
    [][/\ (resp' # resp /\ resp'.upload = "ok" /\ resp'.status = 200)
             => resp'.ref.blob \notin DOMAIN blobs
       /\ \A i \in DOMAIN applications :
             LET path == applications[i].azure_blob_path IN
             path \in DOMAIN blobs => path \in DOMAIN blobs' /\ blobs'[path] = blobs[path]]_vars

\* ------------------------------------------------------------------ claims on the migration

\* C21: POST /admin/migrate runs the migration and answers with success
\* whenever the migration itself raises no error, that is whenever the
\* database can be reached.
C21_ManualMigrateRuns ==
    [][\A db \in DbEnvs :
          (manual_migrate(db) /\ db = "up") => (mresp'.ran /\ mresp'.status = 200)]_vars

StoredRowsKept(old, new) ==
    \A k \in DOMAIN old : k \in DOMAIN new /\ new[k] = old[k]

\* C28: a migration run changes and removes no row that is stored already,
\* and a run that follows a run leaves every table as the first run left it.
C28_MigrationIdempotent ==
    [][mresp'.ran
          => /\ StoredRowsKept(users, users')
             /\ StoredRowsKept(leads, leads')
             /\ StoredRowsKept(recruiters, recruiters')
             /\ StoredRowsKept(applications, applications')
             /\ mresp.ran => /\ users' = users
                             /\ leads' = leads
                             /\ recruiters' = recruiters
                             /\ applications' = applications]_vars

\* A second run has just passed over rows that the first run stored, and
\* over a stored row whose key a file carries with other contents.
C28_Witness ==
    /\ mresp.ran /\ mresp.committed /\ mresp.again
    /\ 2 \in DOMAIN leads /\ 1 \in DOMAIN leads /\ leads[1].name = "stored"
    /\ "carol" \in DOMAIN users
    /\ 2 \in DOMAIN applications
    /\ now = MaxTime

\* ------------------------------------------------------------------ claims on the users

\* C22: a create_user that succeeds adds exactly one user row and leaves
\* every user row and every application row that was there unchanged.
C22_CreateUserKeepsRows ==
    [][(uresp'.op = "create_user" /\ uresp'.status = 200)
          => /\ DOMAIN users' = DOMAIN users \cup {uresp'.username}
             /\ uresp'.username \notin DOMAIN users
             /\ \A u \in DOMAIN users : users'[u] = users[u]
             /\ applications' = applications]_vars

\* ------------------------------------------------------------------ claims on the resolvers

\* C6: when view_file proxies an external reference and the fetch fails, it
\* answers with a redirect to the URL the caller passed, unchanged.
C6_ViewRedirectsToOriginalUrl ==
    (rresp.op = "view_file" /\ rresp.url.scheme \in {"http://", "https://"}
       /\ rresp.kind # "viewer" /\ ~rresp.fetch.ok)
        => (rresp.kind = "redirect" /\ rresp.target = rresp.url)

\* C7 as stated: download_file never answers with a redirect.
C7_DownloadNeverRedirects ==
    rresp.op = "download_file" => rresp.kind # "redirect"

\* C7 amended: for an http(s) reference download_file serves the fetched
\* bytes as an attachment when the fetch succeeds, and when the fetch fails it
\* answers with a redirect to the URL the caller passed, unchanged; it
\* reports no failure for a failed fetch.
C7_DownloadDegradesToRedirect ==
    (rresp.op = "download_file" /\ rresp.url.scheme \in {"http://", "https://"})
        => IF rresp.fetch.ok
           THEN rresp.kind = "bytes" /\ rresp.disposition = "attachment"
           ELSE rresp.kind = "redirect" /\ rresp.target = rresp.url /\ rresp.status = 307

\* A download whose fetch failed.
C7_Witness ==
    /\ rresp.op = "download_file"
    /\ rresp.url.host = AzureHost
    /\ ~rresp.fetch.ok
    /\ rresp.kind = "redirect"

IsResolve == rresp.op \in {"view_file", "download_file"}
HttpSchemes == {"http://", "https://"}

\* C11: view_file and download_file answer a reference that does not start
\* with http:// or https:// with the client error 400; never with a 500,
\* never with bytes, a viewer or a redirect.
C11_NonHttpReferenceRejected ==
    (IsResolve /\ rresp.url.scheme \notin HttpSchemes)
        => (rresp.status = 400 /\ rresp.kind = "error")

\* A view_file request for the local path /uploads/db1.pdf was answered 400.
C11_Witness ==
    /\ rresp.op = "view_file"
    /\ rresp.url.scheme = ""
    /\ rresp.url.dir = <<"uploads">>
    /\ rresp.status = 400

\* C13: bytes served by download_file carry the disposition attachment,
\* bytes served by view_file carry the disposition inline, and neither ever
\* carries the other's.
C13_DispositionByIntent ==
    (IsResolve /\ rresp.kind = "bytes")
        => rresp.disposition = (IF rresp.op = "download_file" THEN "attachment" ELSE "inline")

\* view_file served the bytes of a PDF it fetched.
C13_Witness ==
    /\ rresp.op = "view_file"
    /\ rresp.kind = "bytes"
    /\ rresp.disposition = "inline"
    /\ rresp.fetch.ok

OfficeExts == {".doc", ".docx"}

\* The URL has the shape drive.google.com/file/d/<id>/view.
DriveViewLink(url) ==
    /\ url.host = "drive.google.com"
    /\ Len(url.dir) = 3 /\ SubSeq(url.dir, 1, 2) = <<"file", "d">>
    /\ url.stem = "view"

C9_CeilingProbe ==
    [][\A p \in Ingests :
          (lpc[p] = "idle" /\ lpc'[p] # "idle") =>
              /\ DOMAIN disk = 1..LocalCeiling
                    => (lpc'[p] = "failed" /\ disk' = disk /\ lname'[p] = NoName)
              /\ DOMAIN disk = 1..(LocalCeiling - 1)
                    => (lpc'[p] = "probed" /\ lname'[p].slot = LocalCeiling)
              /\ lpc'[p] = "probed"
                    => /\ lname'[p].slot \in 1..LocalCeiling
                       /\ lname'[p].slot \notin DOMAIN disk
                       /\ 1..(lname'[p].slot - 1) \subseteq DOMAIN disk
              /\ lpc'[p] = "failed" => DOMAIN disk = 1..LocalCeiling]_vars

\* An ingest stored its file as db10000.
C9_Witness ==
    \E p \in Ingests :
        /\ lpc[p] = "done"
        /\ lname[p].slot = LocalCeiling
        /\ disk[LocalCeiling] = p

\* C10: two ingests that both fall back to the local disk never both receive
\* the name db1.
C10_NeverBothDb1 ==
    \A p, q \in Ingests :
        (p # q /\ lpc[p] = "done" /\ lpc[q] = "done")
            => ~(lname[p].slot = 1 /\ lname[q].slot = 1)

====
